---- MODULE Spec2Model ----
(***************************************************************************)
(* A model of the configuration pipeline of linktree-modern: the loader    *)
(* (src/utils/config-loader.ts), the security validators and sanitizer     *)
(* (src/utils/validation.ts), and the two React components that hold a     *)
(* Configuration (src/App.tsx, src/components/ThemeProvider.tsx).          *)
(*                                                                         *)
(* JavaScript values are pairs <<tag, payload>>; a string is the sequence  *)
(* of its characters, an object a function from its keys, an array a       *)
(* sequence.  An exception is modelled by a predicate ...Throws beside the *)
(* operator that computes the value when nothing is thrown.                *)
(***************************************************************************)
EXTENDS Integers, Sequences, FiniteSets, TLC

(***************************************************************************)
(* Characters and strings                                                  *)
(***************************************************************************)
UpperSeq ==
  <<"A", "B", "C", "D", "E", "F", "G", "H", "I", "J", "K", "L", "M",
    "N", "O", "P", "Q", "R", "S", "T", "U", "V", "W", "X", "Y", "Z">>
LowerSeq ==
  <<"a", "b", "c", "d", "e", "f", "g", "h", "i", "j", "k", "l", "m",
    "n", "o", "p", "q", "r", "s", "t", "u", "v", "w", "x", "y", "z">>
DigitSeq == <<"0", "1", "2", "3", "4", "5", "6", "7", "8", "9">>

UpperAlpha == {UpperSeq[i] : i \in DOMAIN UpperSeq}
LowerAlpha == {LowerSeq[i] : i \in DOMAIN LowerSeq}
Digit == {DigitSeq[i] : i \in DOMAIN DigitSeq}
Alpha == UpperAlpha \cup LowerAlpha
AlphaNum == Alpha \cup Digit
HexDigit == Digit \cup {"a", "b", "c", "d", "e", "f", "A", "B", "C", "D", "E", "F"}

\* White space and line terminators as String.prototype.trim strips them.
WhiteSpace == {" ", "\t", "\n", "\r"}
\* The characters the regular-expression dot does not match.
LineTerminator == {"\n", "\r"}

\* The lower-case form of one character (the i flag of a regular expression,
\* the lower-casing of a URL's scheme and host).
ToLowerChar(c) ==
  IF c \in UpperAlpha
    THEN LowerSeq[CHOOSE i \in DOMAIN UpperSeq : UpperSeq[i] = c]
    ELSE c

\* The sequence that a function on 1..n is, evaluated once.
SeqOf(f) == <<>> \o f

ToLower(s) == SeqOf([i \in DOMAIN s |-> ToLowerChar(s[i])])

\* s from position i (1-based) to its end.
From(s, i) == SubSeq(s, i, Len(s))

StartsWith(s, p) == Len(p) <= Len(s) /\ SubSeq(s, 1, Len(p)) = p

\* p occurs in s at position i.
OccursAt(s, p, i) == i >= 1 /\ i + Len(p) - 1 <= Len(s) /\ SubSeq(s, i, i + Len(p) - 1) = p

Contains(s, p) == \E i \in 1..(Len(s) + 1) : OccursAt(s, p, i)

\* pattern.test(s) for a pattern that is a literal with the i flag.
ContainsCI(s, p) ==
  LET ls == ToLower(s)
      lp == ToLower(p)
  IN Contains(ls, lp)

\* /^[class]{lo,hi}$/.test(s)
MatchesClass(s, class, lo, hi) ==
  Len(s) >= lo /\ Len(s) <= hi /\ \A i \in DOMAIN s : s[i] \in class

\* String.prototype.replace(/c/g, rep) for a one-character pattern c.
RECURSIVE ReplaceAll(_, _, _)
ReplaceAll(s, c, rep) ==
  IF s = <<>> THEN <<>>
  ELSE LET rest == Tail(s)
       IN (IF Head(s) = c THEN rep ELSE <<Head(s)>>) \o ReplaceAll(rest, c, rep)

RECURSIVE TrimStart(_)
TrimStart(s) ==
  IF s # <<>> /\ Head(s) \in WhiteSpace THEN TrimStart(Tail(s)) ELSE s

RECURSIVE TrimEnd(_)
TrimEnd(s) ==
  IF s # <<>> /\ s[Len(s)] \in WhiteSpace THEN TrimEnd(SubSeq(s, 1, Len(s) - 1)) ELSE s

\* String.prototype.trim
Trim(s) == TrimEnd(TrimStart(s))

\* The decimal digits of a natural number, as Number.prototype.toString gives them.
RECURSIVE NatToString(_)
NatToString(n) ==
  IF n < 10 THEN <<DigitSeq[n + 1]>>
  ELSE NatToString(n \div 10) \o <<DigitSeq[(n % 10) + 1]>>

\* The property keys "0", "1", ... of the elements of an array (or of the
\* characters of a string), and the template-literal rendering of an index.
IdxKey ==
  <<"0", "1", "2", "3", "4", "5", "6", "7", "8", "9", "10", "11", "12", "13", "14",
    "15", "16", "17", "18", "19", "20", "21", "22", "23", "24", "25", "26", "27",
    "28", "29", "30", "31">>

(***************************************************************************)
(* JavaScript values                                                       *)
(***************************************************************************)
\* A value is the pair of its tag and its payload.
Tag(x) == x[1]
Val(x) == x[2]
Str(s) == <<"string", s>>
Bool(b) == <<"boolean", b>>
Num(n) == <<"number", n>>
Obj(f) == <<"object", f>>
Arr(q) == <<"array", q>>
Null == <<"null", 0>>
Undefined == <<"undefined", 0>>
\* The object {} : no own keys.
EmptyObj == Obj([k \in {} |-> Undefined])

\* A value whose property read throws a TypeError.
Nullish(x) == Tag(x) \in {"null", "undefined"}

\* ToBoolean: what `x &&`, `!x` and `x ? a : b` test.
Truthy(x) ==
  CASE Tag(x) = "string" -> Val(x) # <<>>
    [] Tag(x) = "boolean" -> Val(x)
    [] Tag(x) = "number" -> Val(x) # 0
    [] Tag(x) \in {"object", "array"} -> TRUE
    [] OTHER -> FALSE

\* typeof x
TypeOf(x) ==
  CASE Tag(x) \in {"object", "array", "null"} -> "object"
    [] OTHER -> Tag(x)

\* The own enumerable string keys of x: what for...in and Object.entries visit.
OwnKeys(x) ==
  CASE Tag(x) = "object" -> DOMAIN Val(x)
    [] Tag(x) \in {"array", "string"} -> {IdxKey[i] : i \in 1..Len(Val(x))}
    [] OTHER -> {}

\* x[k] for a value x that is not nullish.
Prop(x, k) ==
  CASE Tag(x) = "object" -> IF k \in DOMAIN Val(x) THEN Val(x)[k] ELSE Undefined
    [] Tag(x) = "array" ->
         IF k = "length" THEN Num(Len(Val(x)))
         ELSE IF k \in OwnKeys(x)
           THEN Val(x)[CHOOSE i \in 1..Len(Val(x)) : IdxKey[i] = k]
           ELSE Undefined
    [] Tag(x) = "string" ->
         IF k = "length" THEN Num(Len(Val(x)))
         ELSE IF k \in OwnKeys(x)
           THEN Str(<<Val(x)[CHOOSE i \in 1..Len(Val(x)) : IdxKey[i] = k]>>)
           ELSE Undefined
    [] OTHER -> Undefined

\* { ...x } : the own enumerable properties of x as a fresh object's fields.
Spread(x) ==
  IF Tag(x) = "object" THEN Val(x) ELSE [k \in OwnKeys(x) |-> Prop(x, k)] @@ <<>>

\* x > n for a number literal n; a value that is not a number compares as NaN
\* (undefined, an object) and the comparison is false.
GreaterThan(x, n) == Tag(x) = "number" /\ Val(x) > n

\* x.length >= n: a limit that is off by one.
LengthAtLeast(x, n) == Tag(Prop(x, "length")) = "number" /\ Val(Prop(x, "length")) >= n

\* x.length > n, as the validators write it behind a truthiness guard.
LengthOver(x, n) == GreaterThan(Prop(x, "length"), n)

\* String(x), as new URL(x) and RegExp.prototype.test(x) coerce their argument.
RECURSIVE StringOf(_)
RECURSIVE JoinComma(_)
JoinComma(q) ==
  IF q = <<>> THEN <<>>
  ELSE (IF Nullish(Head(q)) THEN <<>> ELSE StringOf(Head(q)))
       \o (IF Len(q) > 1 THEN <<",">> \o JoinComma(Tail(q)) ELSE <<>>)
StringOf(x) ==
  CASE Tag(x) = "string" -> Val(x)
    [] Tag(x) = "number" -> NatToString(Val(x))
    [] Tag(x) = "boolean" -> IF Val(x) THEN <<"t", "r", "u", "e">> ELSE <<"f", "a", "l", "s", "e">>
    [] Tag(x) = "null" -> <<"n", "u", "l", "l">>
    [] Tag(x) = "undefined" -> <<"u", "n", "d", "e", "f", "i", "n", "e", "d">>
    [] Tag(x) = "array" -> JoinComma(Val(x))
    [] OTHER -> <<"[", "o", "b", "j", "e", "c", "t", " ", "O", "b", "j", "e", "c", "t", "]">>

(***************************************************************************)
(* String literals of the source                                           *)
(***************************************************************************)
S_http == <<"h", "t", "t", "p", ":">>
S_https == <<"h", "t", "t", "p", "s", ":">>
S_mailto == <<"m", "a", "i", "l", "t", "o", ":">>
S_tel == <<"t", "e", "l", ":">>
S_javascript == <<"j", "a", "v", "a", "s", "c", "r", "i", "p", "t", ":">>
S_data == <<"d", "a", "t", "a", ":">>
S_vbscript == <<"v", "b", "s", "c", "r", "i", "p", "t", ":">>
S_file == <<"f", "i", "l", "e", ":">>
S_ftp == <<"f", "t", "p", ":">>
S_httpSlashes == <<"h", "t", "t", "p", ":", "/", "/">>
S_httpsSlashes == <<"h", "t", "t", "p", "s", ":", "/", "/">>
S_jpg == <<"j", "p", "g">>
S_jpeg == <<"j", "p", "e", "g">>
S_png == <<"p", "n", "g">>
S_gif == <<"g", "i", "f">>
S_webp == <<"w", "e", "b", "p">>
S_svg == <<"s", "v", "g">>
S_amp == <<"&", "a", "m", "p", ";">>
S_lt == <<"&", "l", "t", ";">>
S_gt == <<"&", "g", "t", ";">>
S_quot == <<"&", "q", "u", "o", "t", ";">>
S_apos == <<"&", "#", "x", "2", "7", ";">>
S_slash == <<"&", "#", "x", "2", "F", ";">>

(***************************************************************************)
(* new URL(input): the URL parser of the platform, as far as validateUrl   *)
(* and isSafeExternalUrl depend on it: whether the string parses without a *)
(* base URL, and the protocol and hostname of the result.  Percent-        *)
(* decoding and IDNA processing of the host are not modelled.              *)
(***************************************************************************)
\* Leading and trailing C0-control-or-space stripped, tabs and newlines removed.
URLInput(s) == SelectSeq(Trim(s), LAMBDA c : c \notin {"\t", "\n", "\r"})

\* The position of the first occurrence of a character of set cs in s, 0 if none.
FirstOf(s, cs) ==
  IF \E i \in DOMAIN s : s[i] \in cs
    THEN CHOOSE i \in DOMAIN s : s[i] \in cs /\ \A j \in 1..(i - 1) : s[j] \notin cs
    ELSE 0

\* The position of the last occurrence of c in s, 0 if none.
LastOf(s, c) ==
  IF \E i \in DOMAIN s : s[i] = c
    THEN CHOOSE i \in DOMAIN s : s[i] = c /\ \A j \in (i + 1)..Len(s) : s[j] # c
    ELSE 0

\* The number a string of decimal digits denotes.
RECURSIVE StringToNat(_)
StringToNat(s) ==
  IF s = <<>> THEN 0
  ELSE 10 * StringToNat(SubSeq(s, 1, Len(s) - 1))
       + ((CHOOSE i \in DOMAIN DigitSeq : DigitSeq[i] = s[Len(s)]) - 1)

\* The labels of a host, split at the dots.
RECURSIVE Labels(_)
Labels(h) ==
  LET i == FirstOf(h, {"."})
  IN IF i = 0 THEN <<h>> ELSE <<SubSeq(h, 1, i - 1)>> \o Labels(From(h, i + 1))

IsNumeric(l) == l # <<>> /\ \A i \in DOMAIN l : l[i] \in Digit

\* The forbidden host code points among the characters modelled.
ForbiddenHostChar ==
  WhiteSpace \cup {"#", "/", ":", "<", ">", "?", "@", "[", "\\", "]", "^", "|", "%"}

\* The host parser: an IPv6 literal in brackets, an IPv4 address when the last
\* label is a number (at most four parts, each below 256), otherwise a domain
\* with no forbidden code point.
HostParses(h) ==
  IF h = <<>> THEN FALSE
  ELSE IF Head(h) = "["
    THEN /\ Len(h) > 2
         /\ h[Len(h)] = "]"
         /\ \A i \in 2..(Len(h) - 1) : h[i] \in HexDigit \cup {":"}
    ELSE /\ \A i \in DOMAIN h : h[i] \notin ForbiddenHostChar
         /\ LET ls == Labels(h)
            IN IsNumeric(ls[Len(ls)]) =>
                 /\ Len(ls) <= 4
                 /\ \A i \in DOMAIN ls :
                      IsNumeric(ls[i]) /\ Len(ls[i]) <= 3 /\ StringToNat(ls[i]) <= 255

SpecialSchemes == {S_http, S_https}

\* The slashes and backslashes after a special scheme are skipped.
RECURSIVE SkipSlashes(_)
SkipSlashes(s) ==
  IF s # <<>> /\ Head(s) \in {"/", "\\"} THEN SkipSlashes(Tail(s)) ELSE s

\* The authority: what precedes the first of / \ ? # after the slashes.
URLAuthority(rest) ==
  LET e == FirstOf(rest, {"/", "\\", "?", "#"})
  IN IF e = 0 THEN rest ELSE SubSeq(rest, 1, e - 1)

\* The authority without its credentials.
URLHostPort(authority) == From(authority, LastOf(authority, "@") + 1)

\* A colon after the last bracket starts the port.
URLHasPort(hostport) == LastOf(hostport, ":") > LastOf(hostport, "]")

URLHost(hostport) ==
  IF URLHasPort(hostport) THEN SubSeq(hostport, 1, LastOf(hostport, ":") - 1) ELSE hostport

URLPort(hostport) ==
  IF URLHasPort(hostport) THEN From(hostport, LastOf(hostport, ":") + 1) ELSE <<>>

PortParses(port) ==
  /\ \A i \in DOMAIN port : port[i] \in Digit
  /\ Len(port) <= 5
  /\ StringToNat(port) <= 65535

\* A scheme is a letter followed by letters, digits, +, - or . up to the colon
\* at position c.
HasScheme(u, c) ==
  /\ c > 1
  /\ u[1] \in Alpha
  /\ \A i \in 2..(c - 1) : u[i] \in AlphaNum \cup {"+", "-", "."}

\* The parse of a special scheme's host and port.
URLParseSpecial(protocol, hostport) ==
  [ok |-> HostParses(URLHost(hostport)) /\ PortParses(URLPort(hostport)),
   protocol |-> protocol,
   hostname |-> ToLower(URLHost(hostport))]

URLParseAfterScheme(protocol, afterScheme) ==
  IF protocol \in SpecialSchemes
    THEN URLParseSpecial(protocol, URLHostPort(URLAuthority(SkipSlashes(afterScheme))))
    ELSE [ok |-> TRUE, protocol |-> protocol, hostname |-> <<>>]

URLParseInput(u, c) ==
  IF ~HasScheme(u, c) THEN [ok |-> FALSE, protocol |-> <<>>, hostname |-> <<>>]
  ELSE URLParseAfterScheme(ToLower(SubSeq(u, 1, c)), From(u, c + 1))

URLParseTrimmed(u) == URLParseInput(u, FirstOf(u, {":"}))

\* [ok, protocol, hostname] : ok = FALSE is the TypeError new URL throws.
URLParse(s) == URLParseTrimmed(URLInput(s))

(***************************************************************************)
(* Validators and sanitizer: src/utils/validation.ts                       *)
(***************************************************************************)
allowedProtocols == {S_http, S_https, S_mailto, S_tel}
dangerousPatterns == {S_javascript, S_data, S_vbscript, S_file, S_ftp}

\* validateUrl without its test of the scheme against the allowed ones.
validateUrlChecksAnyScheme(urlObj, s) ==
  /\ urlObj.ok
  /\ ~\E pattern \in dangerousPatterns : ContainsCI(s, pattern)

\* The checks of validateUrl on the parsed URL and on the string itself.
validateUrlChecks(urlObj, s) ==
  /\ urlObj.ok
  /\ urlObj.protocol \in allowedProtocols
  /\ ~\E pattern \in dangerousPatterns : ContainsCI(s, pattern)

validateUrlString(s) == validateUrlChecks(URLParse(s), s)

validateUrl(url) == validateUrlString(StringOf(url))

\* /^172\.(1[6-9]|2[0-9]|3[0-1])\./
Matches172(hostname) ==
  /\ StartsWith(hostname, <<"1", "7", "2", ".">>)
  /\ Len(hostname) >= 7
  /\ hostname[7] = "."
  /\ \/ hostname[5] = "1" /\ hostname[6] \in {"6", "7", "8", "9"}
     \/ hostname[5] = "2" /\ hostname[6] \in Digit
     \/ hostname[5] = "3" /\ hostname[6] \in {"0", "1"}

\* privateIpPatterns.some(pattern => pattern.test(hostname))
privateIpPatterns(hostname) ==
  \/ hostname = <<"l", "o", "c", "a", "l", "h", "o", "s", "t">>
  \/ StartsWith(hostname, <<"1", "2", "7", ".">>)
  \/ StartsWith(hostname, <<"1", "9", "2", ".", "1", "6", "8", ".">>)
  \/ StartsWith(hostname, <<"1", "0", ".">>)
  \/ Matches172(hostname)
  \/ hostname = <<":", ":", "1">>
  \/ StartsWith(hostname, <<"f", "c", "0", "0", ":">>)
  \/ StartsWith(hostname, <<"f", "e", "8", "0", ":">>)

\* The try block of isSafeExternalUrl: the catch returns false.
isSafeExternalUrlChecks(urlObj) ==
  urlObj.ok /\ ~privateIpPatterns(ToLower(urlObj.hostname))

isSafeExternalUrl(url) ==
  IF ~validateUrl(url) THEN FALSE
  ELSE isSafeExternalUrlChecks(URLParse(StringOf(url)))

imageExtensions == {S_jpg, S_jpeg, S_png, S_gif, S_webp, S_svg}

\* /\.(jpg|jpeg|png|gif|webp|svg)(\?.*)?$/i.test(s)
MatchesImageExtension(s) ==
  \E i \in DOMAIN s, ext \in imageExtensions :
    /\ s[i] = "."
    /\ OccursAt(ToLower(s), ext, i + 1)
    /\ LET j == i + Len(ext) + 1
       IN \/ j = Len(s) + 1
          \/ /\ j <= Len(s)
             /\ s[j] = "?"
             /\ \A k \in (j + 1)..Len(s) : s[k] \notin LineTerminator

\* url.startsWith is not a function when url is not a string.
validateImageUrlThrows(url) == validateUrl(url) /\ Tag(url) # "string"

validateImageUrl(url) ==
  /\ validateUrl(url)
  /\ (StartsWith(Val(url), S_httpSlashes) \/ StartsWith(Val(url), S_httpsSlashes))
  /\ MatchesImageExtension(Val(url))

\* text.replace is not a function when text is truthy and not a string.
sanitizeTextThrows(text) == Truthy(text) /\ Tag(text) # "string"

sanitizeText(text) ==
  IF ~Truthy(text) THEN Str(<<>>)
  ELSE LET s1 == ReplaceAll(Val(text), "&", S_amp)
           s2 == ReplaceAll(s1, "<", S_lt)
           s3 == ReplaceAll(s2, ">", S_gt)
           s4 == ReplaceAll(s3, "\"", S_quot)
           s5 == ReplaceAll(s4, "'", S_apos)
           s6 == ReplaceAll(s5, "/", S_slash)
       IN Str(Trim(s6))

\* /^G-[A-Z0-9]{10}$/.test(id)
validateGoogleAnalyticsId(id) ==
  LET s == StringOf(id)
  IN StartsWith(s, <<"G", "-">>) /\ MatchesClass(From(s, 3), UpperAlpha \cup Digit, 10, 10)

\* /^[0-9]{15,16}$/.test(id)
validateFacebookPixelId(id) == MatchesClass(StringOf(id), Digit, 15, 16)

\* The per-platform patterns: [class, lo, hi] stands for /^[class]{lo,hi}$/.
patterns ==
  [twitter |-> [class |-> AlphaNum \cup {"_"}, lo |-> 1, hi |-> 15],
   instagram |-> [class |-> AlphaNum \cup {"_", "."}, lo |-> 1, hi |-> 30],
   github |-> [class |-> AlphaNum \cup {"-"}, lo |-> 1, hi |-> 39],
   linkedin |-> [class |-> AlphaNum \cup {"-"}, lo |-> 3, hi |-> 100],
   tiktok |-> [class |-> AlphaNum \cup {"_", "."}, lo |-> 1, hi |-> 24],
   twitch |-> [class |-> AlphaNum \cup {"_"}, lo |-> 4, hi |-> 25]]

validateSocialMediaUsername(platform, username) ==
  IF ~Truthy(username) THEN TRUE
  ELSE IF platform \in DOMAIN patterns
    THEN LET pattern == patterns[platform]
         IN MatchesClass(StringOf(username), pattern.class, pattern.lo, pattern.hi)
    ELSE TRUE

\* /^#[0-9A-Fa-f]{6}$/.test(color)
validateHexColor(color) ==
  LET s == StringOf(color)
  IN StartsWith(s, <<"#">>) /\ MatchesClass(From(s, 2), HexDigit, 6, 6)

(***************************************************************************)
(* validateConfig and sanitizeConfig of src/utils/validation.ts: the pair  *)
(* loadConfig imports as validateConfigSecurity and sanitizeConfigSecurity *)
(***************************************************************************)
\* One ConfigError.  The field and the message are kept as the pieces the
\* template literal concatenates.
ConfigError(field, message) == [field |-> field, message |-> message]

\* errors.push(e) under the condition c
PushIf(c, e) == IF c THEN <<e>> ELSE <<>>

RECURSIVE ConcatAll(_)
ConcatAll(qs) ==
  IF qs = <<>> THEN <<>>
  ELSE LET rest == Tail(qs) IN Head(qs) \o ConcatAll(rest)

\* x === 0
IsZero(x) == Tag(x) = "number" /\ Val(x) = 0

MaxNameLength == 50
MaxBioLength == 160
MaxLocationLength == 50
MaxLinks == 20
MaxTitleLength == 50
MaxUrlLength == 2048
MaxDescriptionLength == 100
MaxSeoTitleLength == 60
MaxSeoDescriptionLength == 160

\* The body of config.links.forEach((link, index) => ...), index counted from 0.
linkErrors(link, index) ==
  LET title == Prop(link, "title")
      url == Prop(link, "url")
      description == Prop(link, "description")
      i == IdxKey[index + 1]
  IN PushIf(~Truthy(title) \/ IsZero(Prop(title, "length")),
            ConfigError(<<"links[", i, "].title">>, <<"Link title is required">>))
     \o PushIf(Truthy(title) /\ LengthOver(title, MaxTitleLength),
               ConfigError(<<"links[", i, "].title">>,
                           <<"Link title must be 50 characters or less">>))
     \o PushIf(~Truthy(url) \/ ~validateUrl(url),
               ConfigError(<<"links[", i, "].url">>, <<"Invalid URL format">>))
     \o PushIf(Truthy(url) /\ LengthOver(url, MaxUrlLength),
               ConfigError(<<"links[", i, "].url">>, <<"URL too long (max 2048 characters)">>))
     \o PushIf(Truthy(description) /\ LengthOver(description, MaxDescriptionLength),
               ConfigError(<<"links[", i, "].description">>,
                           <<"Description must be 100 characters or less">>))

\* The order in which Object.entries visits the platforms that have a pattern:
\* the key order of DEFAULT_CONFIG.socialMedia, which a merge preserves.
platformOrder == <<"twitter", "instagram", "github", "linkedin", "tiktok", "twitch">>

\* A TypeError is thrown inside validateConfig: a property of null or undefined
\* is read, forEach is called on something that is not an array, Object.entries
\* is given null or undefined, or validateImageUrl throws.
validateConfigThrows(config) ==
  LET profile == Prop(config, "profile")
      links == Prop(config, "links")
      socialMedia == Prop(config, "socialMedia")
      theme == Prop(config, "theme")
      seo == Prop(config, "seo")
      analytics == Prop(config, "analytics")
      imageThrows(x) == Truthy(x) /\ validateImageUrlThrows(x)
  IN \/ Nullish(profile)
     \/ imageThrows(Prop(profile, "avatar"))
     \/ Tag(links) # "array"
     \/ \E i \in DOMAIN Val(links) : Nullish(Val(links)[i])
     \/ Nullish(socialMedia)
     \/ Nullish(theme)
     \/ imageThrows(Prop(theme, "backgroundImage"))
     \/ Nullish(seo)
     \/ imageThrows(Prop(seo, "favicon"))
     \/ Nullish(analytics)

\* A result in which a warning makes the candidate invalid.
ValidationResultCountsWarnings(errors, warnings) ==
  [isValid |-> Len(errors) = 0 /\ Len(warnings) = 0, errors |-> errors, warnings |-> warnings]

\* return { isValid: errors.length === 0, errors, warnings }
ValidationResult(errors, warnings) ==
  [isValid |-> Len(errors) = 0, errors |-> errors, warnings |-> warnings]

\* The ValidationResult when nothing is thrown.
validateConfig(config) ==
  LET profile == Prop(config, "profile")
      name == Prop(profile, "name")
      bio == Prop(profile, "bio")
      avatar == Prop(profile, "avatar")
      location == Prop(profile, "location")
      links == Prop(config, "links")
      socialMedia == Prop(config, "socialMedia")
      theme == Prop(config, "theme")
      seo == Prop(config, "seo")
      analytics == Prop(config, "analytics")
      googleAnalyticsId == Prop(analytics, "googleAnalyticsId")
      facebookPixelId == Prop(analytics, "facebookPixelId")
      errors ==
        PushIf(~Truthy(name) \/ IsZero(Prop(name, "length")),
               ConfigError(<<"profile.name">>, <<"Name is required">>))
        \o PushIf(Truthy(name) /\ LengthOver(name, MaxNameLength),
                  ConfigError(<<"profile.name">>, <<"Name must be 50 characters or less">>))
        \o PushIf(Truthy(bio) /\ LengthOver(bio, MaxBioLength),
                  ConfigError(<<"profile.bio">>, <<"Bio must be 160 characters or less">>))
        \o PushIf(Truthy(avatar) /\ ~validateImageUrl(avatar),
                  ConfigError(<<"profile.avatar">>, <<"Invalid avatar URL format">>))
        \o PushIf(Truthy(location) /\ LengthOver(location, MaxLocationLength),
                  ConfigError(<<"profile.location">>,
                              <<"Location must be 50 characters or less">>))
        \o PushIf(LengthOver(links, MaxLinks),
                  ConfigError(<<"links">>, <<"Maximum 20 links allowed">>))
        \o ConcatAll(SeqOf([i \in DOMAIN Val(links) |-> linkErrors(Val(links)[i], i - 1)]))
        \o ConcatAll(SeqOf([i \in DOMAIN platformOrder |->
             LET platform == platformOrder[i]
                 username == Prop(socialMedia, platform)
             IN PushIf(/\ platform \in OwnKeys(socialMedia)
                       /\ Truthy(username)
                       /\ ~validateSocialMediaUsername(platform, username),
                       ConfigError(<<"socialMedia.", platform>>,
                                   <<"Invalid ", platform, " username format">>))]))
        \o PushIf(~validateHexColor(Prop(theme, "primaryColor")),
                  ConfigError(<<"theme.primaryColor">>, <<"Invalid hex color format">>))
        \o PushIf(Truthy(Prop(theme, "backgroundImage"))
                    /\ ~validateImageUrl(Prop(theme, "backgroundImage")),
                  ConfigError(<<"theme.backgroundImage">>, <<"Invalid background image URL">>))
        \o PushIf(Truthy(Prop(seo, "favicon")) /\ ~validateImageUrl(Prop(seo, "favicon")),
                  ConfigError(<<"seo.favicon">>, <<"Invalid favicon URL format">>))
        \o PushIf(Truthy(googleAnalyticsId) /\ ~validateGoogleAnalyticsId(googleAnalyticsId),
                  ConfigError(<<"analytics.googleAnalyticsId">>,
                              <<"Invalid Google Analytics ID format (should be G-XXXXXXXXXX)">>))
        \o PushIf(Truthy(facebookPixelId) /\ ~validateFacebookPixelId(facebookPixelId),
                  ConfigError(<<"analytics.facebookPixelId">>,
                              <<"Invalid Facebook Pixel ID format">>))
      warnings ==
        PushIf(Truthy(Prop(seo, "title")) /\ LengthOver(Prop(seo, "title"), MaxSeoTitleLength),
               ConfigError(<<"seo.title">>,
                 <<"Title longer than 60 characters may be truncated in search results">>))
        \o PushIf(Truthy(Prop(seo, "description"))
                    /\ LengthOver(Prop(seo, "description"), MaxSeoDescriptionLength),
                  ConfigError(<<"seo.description">>,
                    <<"Description longer than 160 characters may be truncated">>))
  IN ValidationResult(errors, warnings)

\* sanitizeText throws on one of the free-text fields, or a property of null or
\* undefined is read, or config.links has no map method.
sanitizeConfigThrows(config) ==
  LET profile == Prop(config, "profile")
      links == Prop(config, "links")
      seo == Prop(config, "seo")
  IN \/ Nullish(profile)
     \/ sanitizeTextThrows(Prop(profile, "name"))
     \/ sanitizeTextThrows(Prop(profile, "bio"))
     \/ sanitizeTextThrows(Prop(profile, "location"))
     \/ Tag(links) # "array"
     \/ \E i \in DOMAIN Val(links) :
          \/ Nullish(Val(links)[i])
          \/ sanitizeTextThrows(Prop(Val(links)[i], "title"))
          \/ sanitizeTextThrows(Prop(Val(links)[i], "description"))
     \/ Nullish(seo)
     \/ sanitizeTextThrows(Prop(seo, "title"))
     \/ sanitizeTextThrows(Prop(seo, "description"))
     \/ sanitizeTextThrows(Prop(seo, "keywords"))

\* A sanitizeLink that escapes the url as well.
sanitizeLinkEscapesUrl(link) ==
  LET description == Prop(link, "description")
  IN Obj([title |-> sanitizeText(Prop(link, "title")),
          url |-> sanitizeText(Prop(link, "url")),
          description |-> IF Truthy(description) THEN sanitizeText(description)
                          ELSE Undefined]
         @@ Spread(link))

\* { ...link, title: ..., description: ... }
sanitizeLink(link) ==
  LET description == Prop(link, "description")
  IN Obj([title |-> sanitizeText(Prop(link, "title")),
          description |-> IF Truthy(description) THEN sanitizeText(description)
                          ELSE Undefined]
         @@ Spread(link))

sanitizeConfig(config) ==
  LET profile == Prop(config, "profile")
      location == Prop(profile, "location")
      links == Prop(config, "links")
      seo == Prop(config, "seo")
  IN Obj([profile |-> Obj([name |-> sanitizeText(Prop(profile, "name")),
                           bio |-> sanitizeText(Prop(profile, "bio")),
                           avatar |-> Prop(profile, "avatar"),
                           location |-> IF Truthy(location) THEN sanitizeText(location)
                                        ELSE Undefined]),
          links |-> Arr(SeqOf([i \in DOMAIN Val(links) |-> sanitizeLink(Val(links)[i])])),
          socialMedia |-> Prop(config, "socialMedia"),
          theme |-> Prop(config, "theme"),
          layout |-> Prop(config, "layout"),
          seo |-> Obj([title |-> sanitizeText(Prop(seo, "title")),
                       description |-> sanitizeText(Prop(seo, "description")),
                       keywords |-> sanitizeText(Prop(seo, "keywords")),
                       favicon |-> Prop(seo, "favicon")]),
          analytics |-> Prop(config, "analytics"),
          advanced |-> Prop(config, "advanced")])

(***************************************************************************)
(* The loader: src/utils/config-loader.ts                                  *)
(***************************************************************************)
\* The string literals of DEFAULT_CONFIG.
D_name == <<"Y", "o", "u", "r", " ", "N", "a", "m", "e">>
D_bio ==
  <<"W", "e", "l", "c", "o", "m", "e", " ", "t", "o", " ", "m", "y", " ", "l", "i", "n", "k",
    "s", "!", " ", "F", "i", "n", "d", " ", "a", "l", "l", " ", "m", "y", " ", "i", "m", "p",
    "o", "r", "t", "a", "n", "t", " ", "s", "t", "u", "f", "f", " ", "h", "e", "r", "e", ".">>
D_avatar ==
  <<"h", "t", "t", "p", "s", ":", "/", "/", "v", "i", "a", ".", "p", "l", "a", "c", "e", "h",
    "o", "l", "d", "e", "r", ".", "c", "o", "m", "/", "4", "0", "0", "x", "4", "0", "0", "/",
    "6", "3", "6", "6", "f", "1", "/", "f", "f", "f", "f", "f", "f", "?", "t", "e", "x", "t",
    "=", "Y", "o", "u">>
D_link1Title == <<"M", "y", " ", "W", "e", "b", "s", "i", "t", "e">>
D_link1Url ==
  <<"h", "t", "t", "p", "s", ":", "/", "/", "e", "x", "a", "m", "p", "l", "e", ".", "c", "o",
    "m">>
D_link1Description ==
  <<"C", "h", "e", "c", "k", " ", "o", "u", "t", " ", "m", "y", " ", "m", "a", "i", "n", " ",
    "w", "e", "b", "s", "i", "t", "e">>
D_globe == <<"g", "l", "o", "b", "e">>
D_link2Title == <<"C", "o", "n", "t", "a", "c", "t", " ", "M", "e">>
D_link2Url ==
  <<"m", "a", "i", "l", "t", "o", ":", "h", "e", "l", "l", "o", "@", "e", "x", "a", "m", "p",
    "l", "e", ".", "c", "o", "m">>
D_link2Description ==
  <<"G", "e", "t", " ", "i", "n", " ", "t", "o", "u", "c", "h", " ", "v", "i", "a", " ", "e",
    "m", "a", "i", "l">>
D_mail == <<"m", "a", "i", "l">>
D_auto == <<"a", "u", "t", "o">>
D_primaryColor == <<"#", "6", "3", "6", "6", "f", "1">>
D_gradient == <<"g", "r", "a", "d", "i", "e", "n", "t">>
D_inter == <<"i", "n", "t", "e", "r">>
D_rounded == <<"r", "o", "u", "n", "d", "e", "d">>
D_scale == <<"s", "c", "a", "l", "e">>
D_md == <<"m", "d">>
D_center == <<"c", "e", "n", "t", "e", "r">>
D_normal == <<"n", "o", "r", "m", "a", "l">>
D_bottom == <<"b", "o", "t", "t", "o", "m">>
D_seoTitle == <<"M", "y", " ", "L", "i", "n", "k", "s">>
D_seoDescription ==
  <<"F", "i", "n", "d", " ", "a", "l", "l", " ", "m", "y", " ", "i", "m", "p", "o", "r", "t",
    "a", "n", "t", " ", "l", "i", "n", "k", "s", " ", "i", "n", " ", "o", "n", "e", " ", "p",
    "l", "a", "c", "e">>
D_seoKeywords ==
  <<"l", "i", "n", "k", "s", ",", " ", "p", "r", "o", "f", "i", "l", "e", ",", " ", "b", "i",
    "o", ",", " ", "s", "o", "c", "i", "a", "l", " ", "m", "e", "d", "i", "a">>

DEFAULT_CONFIG ==
  Obj([profile |-> Obj([name |-> Str(D_name),
                        bio |-> Str(D_bio),
                        avatar |-> Str(D_avatar),
                        location |-> Str(<<>>)]),
       links |-> Arr(<<Obj([title |-> Str(D_link1Title),
                            url |-> Str(D_link1Url),
                            description |-> Str(D_link1Description),
                            icon |-> Str(D_globe),
                            enabled |-> Bool(TRUE),
                            newTab |-> Bool(TRUE),
                            featured |-> Bool(FALSE)]),
                       Obj([title |-> Str(D_link2Title),
                            url |-> Str(D_link2Url),
                            description |-> Str(D_link2Description),
                            icon |-> Str(D_mail),
                            enabled |-> Bool(TRUE),
                            newTab |-> Bool(FALSE),
                            featured |-> Bool(TRUE)])>>),
       socialMedia |-> Obj([twitter |-> Str(<<>>),
                            instagram |-> Str(<<>>),
                            github |-> Str(<<>>),
                            linkedin |-> Str(<<>>),
                            youtube |-> Str(<<>>),
                            tiktok |-> Str(<<>>),
                            discord |-> Str(<<>>),
                            twitch |-> Str(<<>>)]),
       theme |-> Obj([colorScheme |-> Str(D_auto),
                      primaryColor |-> Str(D_primaryColor),
                      backgroundStyle |-> Str(D_gradient),
                      backgroundImage |-> Str(<<>>),
                      fontFamily |-> Str(D_inter),
                      buttonStyle |-> Str(D_rounded),
                      buttonAnimation |-> Str(D_scale),
                      showBorder |-> Bool(TRUE)]),
       layout |-> Obj([maxWidth |-> Str(D_md),
                       alignment |-> Str(D_center),
                       spacing |-> Str(D_normal),
                       showProfileFirst |-> Bool(TRUE),
                       showSocialMedia |-> Bool(TRUE),
                       socialMediaPosition |-> Str(D_bottom)]),
       seo |-> Obj([title |-> Str(D_seoTitle),
                    description |-> Str(D_seoDescription),
                    keywords |-> Str(D_seoKeywords),
                    favicon |-> Str(<<>>)]),
       analytics |-> Obj([googleAnalyticsId |-> Str(<<>>),
                          facebookPixelId |-> Str(<<>>),
                          trackClicks |-> Bool(TRUE),
                          trackSocialClicks |-> Bool(TRUE)]),
       advanced |-> Obj([enablePWA |-> Bool(FALSE),
                         enableDarkMode |-> Bool(TRUE),
                         enableAnimations |-> Bool(TRUE),
                         preloadImages |-> Bool(TRUE)])])

\* item && typeof item === 'object' && !Array.isArray(item)
isObject(item) == Tag(item) = "object"

\* A merge that copies the keys whose value is undefined as well.
RECURSIVE mergeConfigCopiesUndefined(_, _)
mergeConfigCopiesUndefined(base, override) ==
  LET result == Spread(base)
  IN Obj([key \in OwnKeys(override) |->
            LET overrideValue == Prop(override, key)
                baseValue == Prop(base, key)
            IN IF isObject(overrideValue) /\ isObject(baseValue)
                 THEN mergeConfigCopiesUndefined(baseValue, overrideValue)
                 ELSE overrideValue]
         @@ result)

\* A merge that skips every falsy override value, not only undefined.
RECURSIVE mergeConfigSkipsFalsy(_, _)
mergeConfigSkipsFalsy(base, override) ==
  LET result == Spread(base)
  IN Obj([key \in {k \in OwnKeys(override) : Truthy(Prop(override, k))} |->
            LET overrideValue == Prop(override, key)
                baseValue == Prop(base, key)
            IN IF isObject(overrideValue) /\ isObject(baseValue)
                 THEN mergeConfigSkipsFalsy(baseValue, overrideValue)
                 ELSE overrideValue]
         @@ result)

\* A merge that appends an override array to the base's array.
RECURSIVE mergeConfigConcatsArrays(_, _)
mergeConfigConcatsArrays(base, override) ==
  LET result == Spread(base)
  IN Obj([key \in {k \in OwnKeys(override) : Tag(Prop(override, k)) # "undefined"} |->
            LET overrideValue == Prop(override, key)
                baseValue == Prop(base, key)
            IN IF isObject(overrideValue) /\ isObject(baseValue)
                 THEN mergeConfigConcatsArrays(baseValue, overrideValue)
                 ELSE IF Tag(overrideValue) = "array" /\ Tag(baseValue) = "array"
                   THEN Arr(Val(baseValue) \o Val(overrideValue))
                   ELSE overrideValue]
         @@ result)

\* A shallow merge: { ...base, ...override } without the undefined values.
mergeConfigShallow(base, override) ==
  Obj([key \in {k \in OwnKeys(override) : Tag(Prop(override, k)) # "undefined"} |->
         Prop(override, key)]
      @@ Spread(base))

\* A merge that starts from an empty result rather than from a copy of base.
mergeConfigFromEmpty(base, override) ==
  Obj([key \in {k \in OwnKeys(override) : Tag(Prop(override, k)) # "undefined"} |->
         Prop(override, key)]
      @@ <<>>)

\* result = { ...base }, then every key of override whose value is not
\* undefined is written: merged recursively when both values are plain
\* objects, the override's value otherwise.  (f @@ g is g with the fields of
\* f written over it.)
RECURSIVE mergeConfig(_, _)
mergeConfig(base, override) ==
  LET result == Spread(base)
      written == {key \in OwnKeys(override) : Tag(Prop(override, key)) # "undefined"}
  IN Obj([key \in written |->
            LET overrideValue == Prop(override, key)
                baseValue == Prop(base, key)
            IN IF isObject(overrideValue) /\ isObject(baseValue)
                 THEN mergeConfig(baseValue, overrideValue)
                 ELSE overrideValue]
         @@ result)

\* Which object each property of the result of mergeConfig refers to.  The
\* spread copies the references base holds, so a key the loop does not write
\* refers to base's own record or array ("base"); a key merged recursively
\* refers to the record the inner call created ("fresh"); any other written
\* key refers to the override's own value ("override").  Primitives have no
\* identity ("value").
mergeConfigRefs(base, override) ==
  LET written == {key \in OwnKeys(override) : Tag(Prop(override, key)) # "undefined"}
      HasIdentity(x) == Tag(x) \in {"object", "array"}
  IN [key \in written \cup OwnKeys(base) |->
        LET overrideValue == Prop(override, key)
            baseValue == Prop(base, key)
        IN IF key \in written
             THEN IF isObject(overrideValue) /\ isObject(baseValue) THEN "fresh"
                  ELSE IF HasIdentity(overrideValue) THEN "override" ELSE "value"
             ELSE IF HasIdentity(baseValue) THEN "base" ELSE "value"]

\* The outcomes of fetch('/src/config.json') followed by response.json().
NetworkError == [kind |-> "networkError", doc |-> Undefined]
NotOk == [kind |-> "notOk", doc |-> Undefined]
ParseError == [kind |-> "parseError", doc |-> Undefined]
Json(doc) == [kind |-> "json", doc |-> doc]

\* A rejected fetch, a response that is not ok and a body that is not JSON all
\* end in the catch block, which returns {}.
loadUserConfig(response) ==
  IF response.kind = "json" THEN response.doc ELSE EmptyObj

\* A settled promise.
Fulfilled(value) == [state |-> "fulfilled", value |-> value]
Rejected == [state |-> "rejected", value |-> Undefined]

\* A catch block that rethrows instead of returning the defaults.
loadConfigCatchRethrows == [state |-> "rejected", value |-> Undefined]

\* What the catch block of loadConfig does with an exception of the try block.
loadConfigCatch == Fulfilled(DEFAULT_CONFIG)

\* The try block of loadConfig throws.
loadConfigThrows(response) ==
  LET mergedConfig == mergeConfig(DEFAULT_CONFIG, loadUserConfig(response))
  IN validateConfigThrows(mergedConfig) \/ sanitizeConfigThrows(mergedConfig)

\* A loadConfig that sanitizes again what the degraded path re-merges.
loadConfigSanitizesTwice(response) ==
  LET userConfig == loadUserConfig(response)
      mergedConfig == mergeConfig(DEFAULT_CONFIG, userConfig)
  IN IF loadConfigThrows(response) THEN loadConfigCatch
     ELSE IF ~validateConfig(mergedConfig).isValid
       THEN Fulfilled(sanitizeConfig(mergeConfig(DEFAULT_CONFIG, sanitizeConfig(mergedConfig))))
       ELSE Fulfilled(sanitizeConfig(mergedConfig))

\* The promise loadConfig() returns, for the response its fetch got.
loadConfig(response) ==
  LET userConfig == loadUserConfig(response)
      mergedConfig == mergeConfig(DEFAULT_CONFIG, userConfig)
  IN IF loadConfigThrows(response) THEN loadConfigCatch
     ELSE IF ~validateConfig(mergedConfig).isValid
       THEN Fulfilled(mergeConfig(DEFAULT_CONFIG, sanitizeConfig(mergedConfig)))
       ELSE Fulfilled(sanitizeConfig(mergedConfig))

(***************************************************************************)
(* The theme applicator: src/utils/config-loader.ts.  The document is a    *)
(* record: the custom properties of the root element's style (the empty    *)
(* string stands for a property that is not set), the dark class, the      *)
(* title, and the attributes of the meta and link elements of the head.    *)
(***************************************************************************)
S_inter == <<"i", "n", "t", "e", "r">>
S_poppins == <<"p", "o", "p", "p", "i", "n", "s">>
S_roboto == <<"r", "o", "b", "o", "t", "o">>
S_montserrat == <<"m", "o", "n", "t", "s", "e", "r", "r", "a", "t">>
S_playfair == <<"p", "l", "a", "y", "f", "a", "i", "r">>
S_interStack ==
  <<"I", "n", "t", "e", "r", ",", " ", "s", "y", "s", "t", "e", "m", "-", "u", "i", ",", " ",
    "s", "a", "n", "s", "-", "s", "e", "r", "i", "f">>
S_poppinsStack ==
  <<"P", "o", "p", "p", "i", "n", "s", ",", " ", "s", "y", "s", "t", "e", "m", "-", "u", "i",
    ",", " ", "s", "a", "n", "s", "-", "s", "e", "r", "i", "f">>
S_robotoStack ==
  <<"R", "o", "b", "o", "t", "o", ",", " ", "s", "y", "s", "t", "e", "m", "-", "u", "i", ",",
    " ", "s", "a", "n", "s", "-", "s", "e", "r", "i", "f">>
S_montserratStack ==
  <<"M", "o", "n", "t", "s", "e", "r", "r", "a", "t", ",", " ", "s", "y", "s", "t", "e", "m",
    "-", "u", "i", ",", " ", "s", "a", "n", "s", "-", "s", "e", "r", "i", "f">>
S_playfairStack ==
  <<"P", "l", "a", "y", "f", "a", "i", "r", " ", "D", "i", "s", "p", "l", "a", "y", ",", " ",
    "s", "e", "r", "i", "f">>
S_auto == <<"a", "u", "t", "o">>
S_dark == <<"d", "a", "r", "k">>
S_light == <<"l", "i", "g", "h", "t">>
S_image == <<"i", "m", "a", "g", "e">>

\* style.setProperty(name, value) stores String(value); null and the empty
\* string remove the property.
CssValue(x) == IF Tag(x) = "null" THEN <<>> ELSE StringOf(x)

\* parseInt(h, 16) for a string of two hex digits
HexPair(h) ==
  LET digit(c) ==
        IF c \in Digit THEN (CHOOSE i \in DOMAIN DigitSeq : DigitSeq[i] = c) - 1
        ELSE (CHOOSE i \in 1..6 : LowerSeq[i] = ToLowerChar(c)) + 9
  IN 16 * digit(h[1]) + digit(h[2])

\* /^#?([a-f\d]{2})([a-f\d]{2})([a-f\d]{2})$/i.exec(hex): the three numbers,
\* or <<>> for null.
hexToRgb(hex) ==
  LET s == StringOf(hex)
      h == IF StartsWith(s, <<"#">>) THEN Tail(s) ELSE s
  IN IF MatchesClass(h, HexDigit, 6, 6)
       THEN <<HexPair(SubSeq(h, 1, 2)), HexPair(SubSeq(h, 3, 4)), HexPair(SubSeq(h, 5, 6))>>
       ELSE <<>>

\* fontFamilyMap[theme.fontFamily]
fontFamilyMap(fontFamily) ==
  LET key == StringOf(fontFamily)
  IN CASE key = S_inter -> Str(S_interStack)
       [] key = S_poppins -> Str(S_poppinsStack)
       [] key = S_roboto -> Str(S_robotoStack)
       [] key = S_montserrat -> Str(S_montserratStack)
       [] key = S_playfair -> Str(S_playfairStack)
       [] OTHER -> Undefined

\* x === 'literal'
IsString(x, literal) == Tag(x) = "string" /\ Val(x) = literal

\* An applyThemeVariables whose else branch leaves --background-image alone.
applyThemeVariablesKeepsImage(doc, theme) ==
  [doc EXCEPT
     !.primaryColor = CssValue(Prop(theme, "primaryColor")),
     !.fontFamily = CssValue(fontFamilyMap(Prop(theme, "fontFamily"))),
     !.backgroundImage =
        IF IsString(Prop(theme, "backgroundStyle"), S_image)
           /\ Truthy(Prop(theme, "backgroundImage"))
          THEN <<"u", "r", "l", "(">> \o StringOf(Prop(theme, "backgroundImage")) \o <<")">>
          ELSE @]

applyThemeVariables(doc, theme) ==
  LET primaryRgb == hexToRgb(Prop(theme, "primaryColor"))
      backgroundImage == Prop(theme, "backgroundImage")
  IN [doc EXCEPT
        !.primaryColor = CssValue(Prop(theme, "primaryColor")),
        !.primaryColorRgb =
           IF primaryRgb # <<>>
             THEN NatToString(primaryRgb[1]) \o <<",", " ">> \o NatToString(primaryRgb[2])
                  \o <<",", " ">> \o NatToString(primaryRgb[3])
             ELSE @,
        !.fontFamily = CssValue(fontFamilyMap(Prop(theme, "fontFamily"))),
        !.backgroundImage =
           IF IsString(Prop(theme, "backgroundStyle"), S_image) /\ Truthy(backgroundImage)
             THEN <<"u", "r", "l", "(">> \o StringOf(backgroundImage) \o <<")">>
             ELSE <<>>]

\* The value returned: 'light' or 'dark' under 'auto', the argument otherwise.
getEffectiveColorScheme(colorScheme, prefersDark) ==
  IF IsString(colorScheme, S_auto)
    THEN (IF prefersDark THEN Str(S_dark) ELSE Str(S_light))
    ELSE colorScheme

applyColorScheme(doc, colorScheme, prefersDark) ==
  [doc EXCEPT !.dark = IsString(getEffectiveColorScheme(colorScheme, prefersDark), S_dark)]

\* The title is always written; an element's attribute only when the element
\* exists; the favicon only when seo.favicon is truthy.
updateSEOMetadata(doc, seo) ==
  LET title == StringOf(Prop(seo, "title"))
      description == StringOf(Prop(seo, "description"))
      keywords == StringOf(Prop(seo, "keywords"))
      elements == doc.hasElements
  IN [doc EXCEPT
        !.title = title,
        !.metaDescription = IF elements THEN description ELSE @,
        !.metaKeywords = IF elements THEN keywords ELSE @,
        !.ogTitle = IF elements THEN title ELSE @,
        !.ogDescription = IF elements THEN description ELSE @,
        !.twitterTitle = IF elements THEN title ELSE @,
        !.twitterDescription = IF elements THEN description ELSE @,
        !.favicon = IF elements /\ Truthy(Prop(seo, "favicon"))
                      THEN StringOf(Prop(seo, "favicon")) ELSE @]

\* theme.primaryColor or seo.title is read from null or undefined.
applyThrows(config) == Nullish(Prop(config, "theme")) \/ Nullish(Prop(config, "seo"))

(***************************************************************************)
(* mergeDeep of src/components/ThemeProvider.tsx: the same algorithm as    *)
(* mergeConfig, written a second time there.                               *)
(***************************************************************************)
RECURSIVE mergeDeep(_, _)
mergeDeep(target, source) ==
  LET result == Spread(target)
      written == {key \in OwnKeys(source) : Tag(Prop(source, key)) # "undefined"}
  IN Obj([key \in written |->
            LET sourceValue == Prop(source, key)
                targetValue == Prop(target, key)
            IN IF isObject(sourceValue) /\ isObject(targetValue)
                 THEN mergeDeep(targetValue, sourceValue)
                 ELSE sourceValue]
         @@ result)

(***************************************************************************)
(* The inputs the model draws from: the documents a server may hold as     *)
(* config.json and platform-config.json, and the partial Configurations    *)
(* the presentation layer may pass to updateConfig.                        *)
(***************************************************************************)
I_nameA == <<"A">>
I_bioB == <<"b">>
I_avatarPng ==
  <<"h", "t", "t", "p", "s", ":", "/", "/", "x", ".", "c", "o", "m", "/", "a", ".", "p", "n",
    "g">>
I_color == <<"#", "1", "2", "3", "a", "b", "c">>
I_markup == <<" ", "<", "b", ">", "T", "&", "J", "<", "/", "b", ">">>
I_badUrl ==
  <<"j", "a", "v", "a", "s", "c", "r", "i", "p", "t", ":", "a", "l", "e", "r", "t", "(", "1",
    ")">>
I_goodTitle == <<"B", "l", "o", "g">>
I_goodUrl ==
  <<"h", "t", "t", "p", "s", ":", "/", "/", "b", "l", "o", "g", ".", "e", "x", "a", "m", "p",
    "l", "e", ".", "c", "o", "m", "/">>
I_badTitle == <<"C", "l", "i", "c", "k">>
I_red == <<"r", "e", "d">>
I_x == <<"x">>
I_neon == <<"n", "e", "o", "n">>
I_paris == <<" ", "P", "a", "r", "i", "s", " ">>
I_handle == <<"n", "o", "t", " ", "a", " ", "h", "a", "n", "d", "l", "e", "!">>
I_platformName == <<"P", "l", "a", "t", "f", "o", "r", "m">>
I_newTitle == <<"<", "N", "e", "w", ">">>
I_bgUrl ==
  <<"h", "t", "t", "p", "s", ":", "/", "/", "x", ".", "c", "o", "m", "/", "b", "g", ".", "p",
    "n", "g">>
I_link == <<"l", "i", "n", "k">>
I_longTitle ==
  <<"t", "t", "t", "t", "t", "t", "t", "t", "t", "t", "t", "t", "t", "t", "t", "t", "t", "t",
    "t", "t", "t", "t", "t", "t", "t", "t", "t", "t", "t", "t", "t", "t", "t", "t", "t", "t",
    "t", "t", "t", "t", "t", "t", "t", "t", "t", "t", "t", "t", "t", "t", "t", "t", "t", "t",
    "t", "t", "t", "t", "t", "t", "t">>
I_longName ==
  <<"n", "n", "n", "n", "n", "n", "n", "n", "n", "n", "n", "n", "n", "n", "n", "n", "n", "n",
    "n", "n", "n", "n", "n", "n", "n", "n", "n", "n", "n", "n", "n", "n", "n", "n", "n", "n",
    "n", "n", "n", "n", "n", "n", "n", "n", "n", "n", "n", "n", "n", "n", "n">>

GoodLink ==
  Obj([title |-> Str(I_goodTitle), url |-> Str(I_goodUrl), icon |-> Str(I_link),
       enabled |-> Bool(TRUE), newTab |-> Bool(TRUE), featured |-> Bool(FALSE)])
BadUrlLink ==
  Obj([title |-> Str(I_badTitle), url |-> Str(I_badUrl), icon |-> Str(I_link),
       enabled |-> Bool(TRUE), newTab |-> Bool(TRUE), featured |-> Bool(FALSE)])
DisabledLink ==
  Obj([title |-> Str(I_badTitle), url |-> Str(I_goodUrl), icon |-> Str(I_link),
       enabled |-> Bool(FALSE), newTab |-> Bool(TRUE), featured |-> Bool(FALSE)])
ValidProfile == Obj([name |-> Str(I_nameA), bio |-> Str(I_bioB), avatar |-> Str(I_avatarPng)])

\* The JSON documents a source may hold.
Documents ==
  <<EmptyObj,
    Null,
    \* the end-to-end scenario of the specification
    Obj([profile |-> ValidProfile,
         theme |-> Obj([primaryColor |-> Str(I_color), colorScheme |-> Str(S_dark)])]),
    \* markup in a free-text field of an otherwise valid document
    Obj([profile |-> Obj([name |-> Str(I_markup), bio |-> Str(I_bioB),
                          avatar |-> Str(I_avatarPng), location |-> Str(I_paris)])]),
    \* one link with an unsafe URL beside one valid link
    Obj([profile |-> ValidProfile, links |-> Arr(<<BadUrlLink, GoodLink>>)]),
    \* values that fail their format
    Obj([profile |-> ValidProfile, theme |-> Obj([primaryColor |-> Str(I_red)])]),
    \* a section or a field of the wrong type
    Obj([theme |-> Str(I_x)]),
    Obj([profile |-> ValidProfile, layout |-> Num(5)]),
    Obj([advanced |-> Null]),
    Obj([profile |-> Null]),
    Obj([links |-> Str(I_x)]),
    Obj([profile |-> Obj([name |-> Num(5), avatar |-> Str(I_avatarPng)])]),
    \* a disabled link before an enabled one
    Obj([profile |-> ValidProfile, links |-> Arr(<<DisabledLink, GoodLink>>)])>>

\* What a source serves: nothing (a status that is not ok), a body that is not
\* JSON, or a JSON document.
Sources ==
  <<NotOk, ParseError>> \o [i \in DOMAIN Documents |-> Json(Documents[i])]

\* platform-config.json, when the platform has injected one.
PlatformSources ==
  <<NotOk, Json(Obj([profile |-> Obj([name |-> Str(I_platformName), bio |-> Str(I_bioB),
                                       avatar |-> Str(I_avatarPng)])]))>>

\* The arguments of updateConfig.
Updates ==
  <<Obj([theme |-> Obj([primaryColor |-> Str(I_red)])]),
    Obj([links |-> Arr(<<BadUrlLink>>)]),
    Obj([seo |-> Obj([title |-> Str(I_newTitle)])])>>

(***************************************************************************)
(* The state                                                               *)
(***************************************************************************)
VARIABLES
  platformSource,  \* what the server holds as platform-config.json
  userSource,      \* what the server holds as config.json
  requests,        \* the URLs fetch has been called with, in order
  prefersDark,     \* matchMedia('(prefers-color-scheme: dark)').matches
  document,        \* the style of the root element, its dark class, the head
  app,             \* App: its state [loading, config] and its pending loadConfig
  provider,        \* ThemeProvider: its state [config, isLoading, error]
  rendered,        \* what the last render of ThemeProvider closed over
  updateCalls,     \* the number of updateConfig calls made so far
  pure             \* a call of a pure function: its arguments and its result

vars ==
  <<platformSource, userSource, requests, prefersDark, document, app, provider,
    rendered, updateCalls, pure>>

\* The number of updateConfig calls a behaviour makes.
MaxUpdates == 2

CONFIG_URL == "/src/config.json"

\* The document before any theme is applied.
InitialDocument(hasElements) ==
  [primaryColor |-> <<>>, primaryColorRgb |-> <<>>, fontFamily |-> <<>>,
   backgroundImage |-> <<>>, dark |-> FALSE, title |-> <<>>,
   hasElements |-> hasElements, metaDescription |-> <<>>, metaKeywords |-> <<>>,
   ogTitle |-> <<>>, ogDescription |-> <<>>, twitterTitle |-> <<>>,
   twitterDescription |-> <<>>, favicon |-> <<>>]

\* useState(null), useState(true) in App; loadConfig not yet called.
InitialApp == [config |-> Null, loading |-> TRUE, load |-> "idle", response |-> NotOk]

\* ThemeProvider before App renders it.
Unmounted ==
  [mounted |-> FALSE, config |-> Null, isLoading |-> TRUE, error |-> Null,
   load |-> "idle", response |-> NotOk]

\* What a render of ThemeProvider closes over: the config of that render, the
\* memoized isDarkMode with the dependency it was computed for, and whether
\* the children (and with them the context value) were rendered.
NotRendered ==
  [config |-> Null, colorScheme |-> Undefined, isDarkMode |-> FALSE, children |-> FALSE]

NoCall == [fn |-> "none"]

MainInit ==
  /\ \E i \in DOMAIN PlatformSources : platformSource = PlatformSources[i]
  /\ \E i \in DOMAIN Sources : userSource = Sources[i]
  /\ requests = <<>>
  /\ prefersDark = FALSE
  /\ \E hasElements \in BOOLEAN : document = InitialDocument(hasElements)
  /\ app = InitialApp
  /\ provider = Unmounted
  /\ rendered = NotRendered
  /\ updateCalls = 0

Init == MainInit /\ pure = NoCall

\* What a fetch of config.json can end in: the request fails, or the server
\* answers with what it holds.
Responses == <<NetworkError, userSource>>

(***************************************************************************)
(* App: src/App.tsx                                                        *)
(***************************************************************************)
\* The effect of App runs: loadConfig() is called and its fetch is sent.
AppEffect ==
  /\ app.load = "idle"
  /\ app' = [app EXCEPT !.load = "pending"]
  /\ requests' = Append(requests, CONFIG_URL)
  /\ UNCHANGED <<platformSource, userSource, prefersDark, document, provider, rendered,
                 updateCalls, pure>>

\* The promise settles: .then stores the Configuration, .catch only ends loading.
AppLoaded ==
  /\ app.load = "pending"
  /\ \E i \in DOMAIN Responses :
       LET promise == loadConfig(Responses[i])
       IN app' = [config |-> IF promise.state = "fulfilled" THEN promise.value ELSE Null,
                  loading |-> FALSE,
                  load |-> "settled",
                  response |-> Responses[i]]
  /\ UNCHANGED <<platformSource, userSource, requests, prefersDark, document, provider,
                 rendered, updateCalls, pure>>

\* App renders its tree rather than the spinner.
AppShowsTree == ~app.loading /\ Truthy(app.config)

\* The links App gives a LinkButton each: config.links.map(...), in the tree
\* it renders once it has a Configuration.
AppLinkButtons ==
  IF AppShowsTree /\ Tag(Prop(app.config, "links")) = "array"
    THEN Val(Prop(app.config, "links"))
    ELSE <<>>

\* links.filter(link => link.enabled), what LinksList of LinkButton.tsx gives
\* a LinkButton each.
RECURSIVE enabledLinks(_)
enabledLinks(links) ==
  IF links = <<>> THEN <<>>
  ELSE (IF Truthy(Prop(Head(links), "enabled")) THEN <<Head(links)>> ELSE <<>>)
       \o enabledLinks(Tail(links))

(***************************************************************************)
(* ThemeProvider: src/components/ThemeProvider.tsx                         *)
(***************************************************************************)
\* App renders ThemeProvider for the first time: the loading screen is
\* rendered, and the mount effect calls loadConfig().
ProviderMount ==
  /\ AppShowsTree
  /\ ~provider.mounted
  /\ provider' = [Unmounted EXCEPT !.mounted = TRUE, !.load = "pending"]
  /\ rendered' = NotRendered
  /\ requests' = Append(requests, CONFIG_URL)
  /\ UNCHANGED <<platformSource, userSource, prefersDark, document, app, updateCalls, pure>>

S_failed ==
  <<"F", "a", "i", "l", "e", "d", " ", "t", "o", " ", "l", "o", "a", "d", " ", "c", "o", "n",
    "f", "i", "g", "u", "r", "a", "t", "i", "o", "n">>
S_typeError == <<"T", "y", "p", "e", "E", "r", "r", "o", "r">>

\* initializeConfig after its await: the loaded Configuration is stored and
\* the theme applied; an exception ends in the catch block, which sets error.
ProviderLoaded ==
  /\ provider.load = "pending"
  /\ \E i \in DOMAIN Responses :
       LET promise == loadConfig(Responses[i])
           loadedConfig == promise.value
           themed == applyColorScheme(applyThemeVariables(document, Prop(loadedConfig, "theme")),
                                      Prop(Prop(loadedConfig, "theme"), "colorScheme"),
                                      prefersDark)
       IN IF promise.state = "rejected"
            THEN /\ provider' = [provider EXCEPT !.isLoading = FALSE, !.error = Str(S_failed),
                                                 !.load = "settled", !.response = Responses[i]]
                 /\ UNCHANGED document
            ELSE /\ provider' = [provider EXCEPT
                                   !.config = loadedConfig,
                                   !.isLoading = FALSE,
                                   !.error = IF applyThrows(loadedConfig)
                                               THEN Str(S_typeError) ELSE Null,
                                   !.load = "settled",
                                   !.response = Responses[i]]
                 /\ document' =
                      IF Nullish(Prop(loadedConfig, "theme")) THEN document
                      ELSE IF Nullish(Prop(loadedConfig, "seo")) THEN themed
                      ELSE updateSEOMetadata(themed, Prop(loadedConfig, "seo"))
  /\ UNCHANGED <<platformSource, userSource, requests, prefersDark, app, rendered,
                 updateCalls, pure>>

\* config?.theme.colorScheme, the dependency of the isDarkMode memo and of the
\* listener effect.
ColorSchemeOf(config) ==
  IF Truthy(config) THEN Prop(Prop(config, "theme"), "colorScheme") ELSE Undefined

\* What a render of ThemeProvider produces from the state: isDarkMode is
\* recomputed only when its dependency changed.
RenderOf(state, last, dark) ==
  [config |-> state.config,
   colorScheme |-> ColorSchemeOf(state.config),
   isDarkMode |->
     IF ColorSchemeOf(state.config) = last.colorScheme /\ Truthy(last.config) = Truthy(state.config)
       THEN last.isDarkMode
       ELSE Truthy(state.config)
            /\ IsString(getEffectiveColorScheme(ColorSchemeOf(state.config), dark), S_dark),
   children |-> ~state.isLoading /\ ~Truthy(state.error) /\ Truthy(state.config)]

\* React renders ThemeProvider again after its state changed.
ProviderRender ==
  /\ provider.mounted
  /\ provider.load = "settled"
  /\ rendered # RenderOf(provider, rendered, prefersDark)
  /\ rendered' = RenderOf(provider, rendered, prefersDark)
  /\ UNCHANGED <<platformSource, userSource, requests, prefersDark, document, app, provider,
                 updateCalls, pure>>

\* updateConfig(updates) as the last render defined it: config is the
\* Configuration of that render.
updateConfigEffect(updates) ==
  LET newConfig == mergeDeep(rendered.config, updates)
      themed == IF Truthy(Prop(updates, "theme"))
                  THEN applyColorScheme(
                         applyThemeVariables(document, Prop(newConfig, "theme")),
                         Prop(Prop(newConfig, "theme"), "colorScheme"), prefersDark)
                  ELSE document
  IN /\ provider' = [provider EXCEPT !.config = newConfig]
     /\ document' = IF Truthy(Prop(updates, "seo"))
                      THEN updateSEOMetadata(themed, Prop(newConfig, "seo"))
                      ELSE themed

\* A child calls updateConfig of the context value.
UpdateConfig ==
  /\ rendered.children
  /\ updateCalls < MaxUpdates
  /\ \E i \in DOMAIN Updates : updateConfigEffect(Updates[i])
  /\ updateCalls' = updateCalls + 1
  /\ UNCHANGED <<platformSource, userSource, requests, prefersDark, app, rendered, pure>>

\* A child calls toggleDarkMode of the context value.
ToggleDarkMode ==
  /\ rendered.children
  /\ updateCalls < MaxUpdates
  /\ LET newColorScheme == IF rendered.isDarkMode THEN Str(S_light) ELSE Str(S_dark)
     IN updateConfigEffect(Obj([theme |-> Obj([colorScheme |-> newColorScheme])]))
  /\ updateCalls' = updateCalls + 1
  /\ UNCHANGED <<platformSource, userSource, requests, prefersDark, app, rendered, pure>>

\* The system preference changes; the listener the last render's effect
\* registered re-applies the scheme when that render's colorScheme is 'auto'.
SystemPreferenceChange ==
  /\ prefersDark' = ~prefersDark
  /\ document' =
       IF Truthy(rendered.config) /\ IsString(rendered.colorScheme, S_auto)
         THEN applyColorScheme(document, Str(S_auto), prefersDark')
         ELSE document
  /\ UNCHANGED <<platformSource, userSource, requests, app, provider, rendered, updateCalls,
                 pure>>

Next ==
  \/ AppEffect
  \/ AppLoaded
  \/ ProviderMount
  \/ ProviderLoaded
  \/ ProviderRender
  \/ UpdateConfig
  \/ ToggleDarkMode
  \/ SystemPreferenceChange

Spec == Init /\ [][Next]_vars

(***************************************************************************)
(* The shape of a Configuration: src/types/config.ts                       *)
(***************************************************************************)
\* The fields each interface declares without a question mark.
RequiredFields ==
  [profile |-> {"name", "bio", "avatar"},
   socialMedia |-> {},
   theme |-> {"colorScheme", "primaryColor", "backgroundStyle", "fontFamily", "buttonStyle",
              "buttonAnimation", "showBorder"},
   layout |-> {"maxWidth", "alignment", "spacing", "showProfileFirst", "showSocialMedia",
               "socialMediaPosition"},
   seo |-> {"title", "description", "keywords"},
   analytics |-> {"trackClicks", "trackSocialClicks"},
   advanced |-> {"enablePWA", "enableDarkMode", "enableAnimations", "preloadImages"}]

LinkRequiredFields == {"title", "url", "icon", "enabled", "newTab", "featured"}

\* Every section is a record (links: an array of records) and every required
\* field is present.
IsTotal(config) ==
  /\ Tag(config) = "object"
  /\ \A section \in DOMAIN RequiredFields :
       /\ Tag(Prop(config, section)) = "object"
       /\ \A field \in RequiredFields[section] :
            ~Nullish(Prop(Prop(config, section), field))
  /\ Tag(Prop(config, "links")) = "array"
  /\ \A i \in DOMAIN Val(Prop(config, "links")) :
       LET link == Val(Prop(config, "links"))[i]
       IN /\ Tag(link) = "object"
          /\ \A field \in LinkRequiredFields : ~Nullish(Prop(link, field))

\* validateConfig(config) returns without throwing and with isValid true.
PassesValidator(config) ==
  /\ Tag(config) = "object"
  /\ ~validateConfigThrows(config)
  /\ validateConfig(config).isValid

\* The url of every element of an array of links, in order.
LinkUrls(links) == SeqOf([i \in DOMAIN Val(links) |-> Prop(Val(links)[i], "url")])

\* The urls of an array of links that pass validateUrl, in order.
ValidLinkUrls(links) == SelectSeq(LinkUrls(links), LAMBDA url : Truthy(url) /\ validateUrl(url))

(***************************************************************************)
(* Claims about loadConfig, checked on what App received from it           *)
(***************************************************************************)
\* C1: whatever the fetch of the user configuration ended in, the
\* Configuration loadConfig returned passes validateConfig with isValid true.
C1_ResultPassesValidator ==
  app.load = "settled" => PassesValidator(app.config)

\* C2: for every JSON document served as user configuration, the
\* Configuration loadConfig returned is total: the eight sections are records
\* (links an array of records) with every required field present.
C2_ResultIsTotal ==
  (app.load = "settled" /\ app.response.kind = "json") => IsTotal(app.config)

\* C3: when the links of the user document hold a link whose url fails
\* validateUrl beside a link whose url passes, the links of the Configuration
\* loadConfig returned are exactly the links that pass, and the valid profile
\* fields of the document are kept.
C3_InvalidLinkDropped ==
  LET override == app.response.doc
      links == Prop(override, "links")
  IN (/\ app.load = "settled"
      /\ app.response.kind = "json"
      /\ Tag(override) = "object"
      /\ Tag(links) = "array"
      /\ ValidLinkUrls(links) # <<>>
      /\ ValidLinkUrls(links) # LinkUrls(links))
     => /\ Tag(app.config) = "object"
        /\ Tag(Prop(app.config, "links")) = "array"
        /\ LinkUrls(Prop(app.config, "links")) = ValidLinkUrls(links)
        /\ Prop(Prop(app.config, "profile"), "avatar") = Prop(Prop(override, "profile"), "avatar")

\* C4: loadConfig never rejects, and when a step of its try block throws it
\* resolves with DEFAULT_CONFIG itself.
C4_ThrowResolvesWithDefaults ==
  app.load = "settled" =>
    /\ Tag(app.config) = "object"
    /\ loadConfigThrows(app.response) => app.config = DEFAULT_CONFIG

\* C4 happens: a document made the try block throw, and App received the
\* defaults.
C4_Witness ==
  /\ app.load = "settled"
  /\ app.response.kind = "json"
  /\ loadConfigThrows(app.response)
  /\ app.config = DEFAULT_CONFIG

\* Where the platform-injected configuration is served (DEVELOPER.md,
\* Configuration Injection).
PLATFORM_CONFIG_URL == "/platform-config.json"

\* C5: the sources are attempted in the order platform configuration, user
\* configuration, defaults: the platform configuration is requested first,
\* and when it is served and parses, the Configuration returned is built from
\* it and not from a lower source.
C5_PlatformConfigFirst ==
  app.load = "settled" =>
    /\ requests[1] = PLATFORM_CONFIG_URL
    /\ platformSource.kind = "json" => app.config = loadConfig(platformSource).value

\* C6: with {} as the user document, loadConfig returns the static defaults
\* field for field, all eight sections populated, and validateConfig on the
\* result gives isValid true.
C6_EmptyOverrideGivesValidDefaults ==
  (app.load = "settled" /\ app.response = Json(EmptyObj)) =>
    /\ app.config = DEFAULT_CONFIG
    /\ IsTotal(app.config)
    /\ PassesValidator(app.config)

\* C7: when the fetch of the user configuration fails (network error, status
\* not ok, body not JSON), loadConfig still resolves, with a Configuration
\* equal to the static defaults in every field.
C7_FailedSourceGivesDefaults ==
  (app.load = "settled" /\ app.response.kind # "json") =>
    /\ Tag(app.config) = "object"
    /\ app.config = DEFAULT_CONFIG

\* C7 happens: the server answered with a body that is not JSON, and App
\* received the defaults.
C7_Witness ==
  /\ app.load = "settled"
  /\ app.response = ParseError
  /\ app.config = DEFAULT_CONFIG

\* C8: an updateConfig call leaves a resident Configuration that passes the
\* validator: from a resident Configuration that passes it, no step reaches
\* one that does not.
C8_UpdateKeepsResidentValid ==
  [][PassesValidator(provider.config) => PassesValidator(provider.config')]_vars

\* C9: once ThemeProvider renders its children, the Configuration the
\* components rendered by App read is the one ThemeProvider holds, also after
\* an update (both having loaded from the same response).
C9_OneLiveConfiguration ==
  (AppShowsTree /\ rendered.children /\ app.response = provider.response)
    => app.config = provider.config

(***************************************************************************)
(* The pure functions, applied to arguments drawn from bounded sets        *)
(***************************************************************************)
\* A Configuration with one section replaced.
WithSection(config, section, value) == Obj((section :> value) @@ Val(config))

\* A Configuration that passes the validator: the defaults with a profile
\* whose avatar is an image URL.
ValidConfiguration == WithSection(DEFAULT_CONFIG, "profile", ValidProfile)

\* Base Configurations: the defaults, valid Configurations written out, and
\* the defaults merged with each document.
Bases ==
  <<DEFAULT_CONFIG,
    ValidConfiguration,
    WithSection(ValidConfiguration, "links", Arr(<<GoodLink>>)),
    WithSection(ValidConfiguration, "links", Arr(<<>>)),
    WithSection(ValidConfiguration, "links", Arr(<<BadUrlLink, GoodLink>>))>>
  \o [i \in DOMAIN Documents |-> mergeConfig(DEFAULT_CONFIG, Documents[i])]

\* Overrides that set one nested leaf: to a string, to the empty string, to
\* false, to null, and to undefined.
LeafOverrides ==
  <<Obj([profile |-> Obj([name |-> Str(I_platformName)])]),
    Obj([profile |-> Obj([name |-> Str(<<>>)])]),
    Obj([theme |-> Obj([showBorder |-> Bool(FALSE)])]),
    Obj([seo |-> Obj([favicon |-> Null])]),
    Obj([profile |-> Obj([name |-> Undefined])])>>

\* An override with undefined values beside an empty string, a null and a
\* false.
MixedOverride ==
  Obj([profile |-> Obj([name |-> Undefined, bio |-> Str(<<>>), location |-> Null]),
       theme |-> Obj([showBorder |-> Bool(FALSE)]),
       advanced |-> Undefined])

\* Overrides: the documents, the partial updates, the single leaves, an empty
\* links array, and a section that is undefined.
Overrides ==
  Documents \o Updates \o LeafOverrides
  \o <<Obj([links |-> Arr(<<>>)]), Obj([theme |-> Undefined]), MixedOverride>>

(***************************************************************************)
(* Arguments of the pure functions                                         *)
(***************************************************************************)
\* URL strings.
U_public ==
  <<"h", "t", "t", "p", "s", ":", "/", "/", "e", "x", "a", "m", "p", "l", "e", ".", "c", "o",
    "m">>
U_loopback == <<"h", "t", "t", "p", ":", "/", "/", "1", "2", "7", ".", "0", ".", "0", ".", "1", "/">>
U_private192 ==
  <<"h", "t", "t", "p", ":", "/", "/", "1", "9", "2", ".", "1", "6", "8", ".", "0", ".", "1",
    "/">>
U_localhost == <<"h", "t", "t", "p", ":", "/", "/", "l", "o", "c", "a", "l", "h", "o", "s", "t", "/">>
U_private10 == <<"h", "t", "t", "p", ":", "/", "/", "1", "0", ".", "0", ".", "0", ".", "1", "/">>
U_private172 == <<"h", "t", "t", "p", ":", "/", "/", "1", "7", "2", ".", "1", "6", ".", "0", ".", "1", "/">>
U_linkLocal ==
  <<"h", "t", "t", "p", ":", "/", "/", "1", "6", "9", ".", "2", "5", "4", ".", "1", "6", "9",
    ".", "2", "5", "4", "/">>
U_ipv6Loopback == <<"h", "t", "t", "p", ":", "/", "/", "[", ":", ":", "1", "]", "/">>
U_ipv6LinkLocal == <<"h", "t", "t", "p", ":", "/", "/", "[", "f", "e", "8", "0", ":", ":", "1", "]", "/">>
U_schemeless == <<"e", "x", "a", "m", "p", "l", "e", ".", "c", "o", "m">>
U_ws == <<"w", "s", ":", "/", "/", "x", ".", "c", "o", "m">>
U_ftp == <<"f", "t", "p", ":", "/", "/", "x", ".", "c", "o", "m">>
U_mailto == <<"m", "a", "i", "l", "t", "o", ":", "a", "@", "b", ".", "c", "o", "m">>
U_tel == <<"t", "e", "l", ":", "+", "1", "2", "3">>
U_data == <<"d", "a", "t", "a", ":", "t", "e", "x", "t", "/", "h", "t", "m", "l", ",", "x">>
U_blockedInQuery ==
  <<"h", "t", "t", "p", "s", ":", "/", "/", "e", "x", "a", "m", "p", "l", "e", ".", "c", "o",
    "m", "/", "?", "n", "e", "x", "t", "=", "j", "a", "v", "a", "s", "c", "r", "i", "p", "t",
    ":", "x">>
U_upper ==
  <<"H", "T", "T", "P", "S", ":", "/", "/", "E", "X", "A", "M", "P", "L", "E", ".", "C", "O",
    "M">>
U_noHost == <<"h", "t", "t", "p", "s", ":", "/", "/">>
U_public172 == <<"h", "t", "t", "p", ":", "/", "/", "1", "7", "2", ".", "3", "2", ".", "0", ".", "1", "/">>

UrlStrings ==
  <<U_public, U_loopback, U_private192, U_localhost, U_private10,
    U_private172, U_linkLocal, U_ipv6Loopback, U_ipv6LinkLocal, U_schemeless,
    U_ws, U_ftp, U_mailto, U_tel, U_data,
    U_blockedInQuery, U_upper, U_noHost, U_public172,
    I_badUrl, I_goodUrl, I_avatarPng, D_avatar, <<>>>>

\* A Configuration with one field of one section replaced.
WithField(config, section, field, value) ==
  Obj((section :> Obj((field :> value) @@ Val(Prop(config, section)))) @@ Val(config))

\* A Configuration without one of its sections.
WithoutSection(config, section) ==
  Obj([key \in DOMAIN Val(config) \ {section} |-> Val(config)[key]] @@ <<>>)

\* A link that is valid but for its url.
LinkTo(url) ==
  Obj([title |-> Str(I_goodTitle), url |-> Str(url), icon |-> Str(I_link),
       enabled |-> Bool(TRUE), newTab |-> Bool(TRUE), featured |-> Bool(FALSE)])

\* Candidates of the validator that differ from a valid Configuration in one
\* or two places.
NearValid ==
  <<WithField(ValidConfiguration, "profile", "name", Str(<<>>)),
    WithField(ValidConfiguration, "profile", "name", Str(I_longName)),
    WithField(ValidConfiguration, "profile", "bio", Str(<<>>)),
    WithField(ValidConfiguration, "profile", "bio", Undefined),
    WithField(ValidConfiguration, "theme", "primaryColor", Str(I_red)),
    WithField(WithField(ValidConfiguration, "profile", "name", Str(I_longName)),
              "theme", "primaryColor", Str(I_red)),
    WithField(ValidConfiguration, "theme", "colorScheme", Str(I_neon)),
    WithField(ValidConfiguration, "seo", "title", Str(I_longTitle)),
    WithField(WithField(ValidConfiguration, "seo", "title", Str(I_longTitle)),
              "theme", "primaryColor", Str(I_red)),
    WithField(ValidConfiguration, "socialMedia", "twitter", Str(I_handle)),
    WithoutSection(ValidConfiguration, "theme"),
    WithoutSection(ValidConfiguration, "layout"),
    WithoutSection(ValidConfiguration, "seo")>>

\* Candidates with one link, to each of the URL strings.
OneLink ==
  [i \in DOMAIN UrlStrings |->
     WithSection(ValidConfiguration, "links", Arr(<<LinkTo(UrlStrings[i])>>))]

\* A valid Configuration with the given number of links, each of them valid.
ManyLinks(count) ==
  WithSection(ValidConfiguration, "links", Arr(SeqOf([i \in 1..count |-> GoodLink])))

\* Candidates at and over the limit of the number of links.
AtLinkLimit == <<ManyLinks(MaxLinks), ManyLinks(MaxLinks + 1)>>

Candidates == NearValid \o OneLink \o Bases \o AtLinkLimit

\* A document with markup in each of its free-text fields, and the given
\* primary colour.
MarkupDocument(primaryColor) ==
  Obj([profile |-> Obj([name |-> Str(I_markup), bio |-> Str(I_markup),
                        avatar |-> Str(I_avatarPng), location |-> Str(I_paris)]),
       links |-> Arr(<<Obj([title |-> Str(I_newTitle), url |-> Str(I_goodUrl),
                            description |-> Str(I_markup), icon |-> Str(I_link),
                            enabled |-> Bool(TRUE), newTab |-> Bool(TRUE),
                            featured |-> Bool(FALSE)]),
                       GoodLink>>),
       theme |-> Obj([primaryColor |-> Str(primaryColor)]),
       seo |-> Obj([title |-> Str(I_newTitle), description |-> Str(I_markup),
                    keywords |-> Str(I_markup)])])

\* What the fetch of loadConfig can end in: the failures, and a JSON
\* document, among them one with a colour scheme outside the three allowed.
FetchOutcomes ==
  <<NetworkError, NotOk, ParseError>>
  \o [i \in DOMAIN Documents |-> Json(Documents[i])]
  \o <<Json(Obj([profile |-> ValidProfile, theme |-> Obj([colorScheme |-> Str(I_neon)])])),
       Json(Obj([profile |-> ValidProfile, links |-> Arr(<<LinkTo(U_loopback)>>)])),
       Json(Obj([profile |-> ValidProfile, links |-> Arr(<<GoodLink>>)])),
       Json(MarkupDocument(I_color)),
       Json(MarkupDocument(I_red))>>

\* The theme of a valid Configuration with the given background.
ThemeWith(backgroundStyle, backgroundImage) ==
  Obj([backgroundStyle |-> Str(backgroundStyle), backgroundImage |-> Str(backgroundImage)]
      @@ Val(Prop(ValidConfiguration, "theme")))

\* The arguments of applyThemeVariables.
Themes ==
  <<ThemeWith(S_image, I_bgUrl), ThemeWith(S_image, <<>>),
    ThemeWith(D_gradient, I_bgUrl), ThemeWith(D_gradient, <<>>)>>

\* The seo section of a valid Configuration with the given title and favicon.
SeoWith(title, favicon) ==
  Obj([title |-> Str(title), favicon |-> Str(favicon)] @@ Val(Prop(ValidConfiguration, "seo")))

\* The arguments of updateSEOMetadata.
Seos ==
  <<SeoWith(D_seoTitle, <<>>), SeoWith(I_newTitle, I_avatarPng), SeoWith(I_goodTitle, I_bgUrl)>>

\* The calls of the theme applicator made one after the other.
MaxCalls == 3

(***************************************************************************)
(* RateLimiter: src/utils/validation.ts.  attempts maps a key to its       *)
(* record; NoRecord stands for a key the Map does not hold.                *)
(***************************************************************************)
NoRecord == [present |-> FALSE, count |-> 0, resetTime |-> 0]

\* isAllowed(key, maxAttempts, windowMs) at the time now: the value returned
\* and the Map afterwards.
isAllowed(attempts, key, maxAttempts, windowMs, now) ==
  IF ~attempts[key].present \/ now > attempts[key].resetTime
    THEN [result |-> TRUE,
          attempts |-> [attempts EXCEPT ![key] = [present |-> TRUE, count |-> 1,
                                                  resetTime |-> now + windowMs]]]
  ELSE IF attempts[key].count >= maxAttempts
    THEN [result |-> FALSE, attempts |-> attempts]
  ELSE [result |-> TRUE, attempts |-> [attempts EXCEPT ![key].count = @ + 1]]

\* reset(key)
reset(attempts, key) == [attempts EXCEPT ![key] = NoRecord]

\* The keys of the calls, the maxAttempts a limiter is called with, the
\* window, and the last instant of the clock.
Keys == {"a", "b"}
MaxAttemptsArguments == 0..2
WindowMs == 2
MaxNow == 4

\* The arguments of sanitizeConfig: the candidates of the validator, and a
\* Configuration with markup in its free-text fields.
Configurations ==
  Candidates \o <<mergeDeep(ValidConfiguration, MarkupDocument(I_color))>>

InitPure ==
  /\ platformSource = NotOk
  /\ userSource = NotOk
  /\ requests = <<>>
  /\ prefersDark = FALSE
  /\ document = InitialDocument(TRUE)
  /\ app = InitialApp
  /\ provider = Unmounted
  /\ rendered = NotRendered
  /\ updateCalls = 0
  /\ \/ \E i \in DOMAIN Bases, j \in DOMAIN Overrides :
          pure = [fn |-> "mergeConfig", base |-> Bases[i], override |-> Overrides[j],
                  done |-> FALSE, result |-> Undefined, refs |-> <<>>,
                  mutated |-> FALSE,
                  before |-> [base |-> Bases[i], override |-> Overrides[j]]]
     \/ \E i \in DOMAIN Candidates :
          pure = [fn |-> "validateConfig", config |-> Candidates[i], done |-> FALSE,
                  threw |-> FALSE, result |-> Undefined]
     \/ \E i \in DOMAIN FetchOutcomes :
          pure = [fn |-> "loadConfig", response |-> FetchOutcomes[i], done |-> FALSE,
                  promise |-> Rejected]
     \/ \E i \in DOMAIN UrlStrings, fn \in {"validateUrl", "isSafeExternalUrl"} :
          pure = [fn |-> fn, url |-> Str(UrlStrings[i]), done |-> FALSE, result |-> FALSE]
     \/ \E i \in DOMAIN Configurations :
          pure = [fn |-> "sanitizeConfig", config |-> Configurations[i], done |-> FALSE,
                  threw |-> FALSE, result |-> Undefined]
     \/ \E maxAttempts \in MaxAttemptsArguments :
          pure = [fn |-> "RateLimiter", maxAttempts |-> maxAttempts, now |-> 0,
                  attempts |-> [key \in Keys |-> NoRecord],
                  granted |-> [key \in Keys |-> 0],
                  last |-> [op |-> "none"]]
     \/ \E fn \in {"applyThemeVariables", "updateSEOMetadata"} :
          pure = [fn |-> fn, calls |-> 0, argument |-> Undefined,
                  before |-> InitialDocument(TRUE)]

\* mergeConfig(base, override) is called and returns.
CallMergeConfig ==
  /\ pure.fn = "mergeConfig"
  /\ ~pure.done
  /\ pure' = [pure EXCEPT !.done = TRUE,
                          !.result = mergeConfig(pure.base, pure.override),
                          !.refs = mergeConfigRefs(pure.base, pure.override)]
  /\ UNCHANGED <<platformSource, userSource, requests, prefersDark, document, app, provider,
                 rendered, updateCalls>>

\* An in-place write to a record (a property is set) or to an array (an
\* element is pushed).
Touch(x) ==
  IF Tag(x) = "array" THEN Arr(Append(Val(x), Null))
  ELSE Obj(("touched" :> Bool(TRUE)) @@ Val(x))

\* The same write seen through a reference to a parent that holds the
\* written object under key.
TouchAt(parent, key) == Obj((key :> Touch(Prop(parent, key))) @@ Val(parent))

\* The caller writes in place to a nested record or array of the merged
\* result: every holder of a reference to that object sees the write.
MutateMerged ==
  /\ pure.fn = "mergeConfig"
  /\ pure.done
  /\ ~pure.mutated
  /\ Tag(pure.result) = "object"
  /\ \E key \in OwnKeys(pure.result) :
       /\ Tag(Prop(pure.result, key)) \in {"object", "array"}
       /\ pure' = [pure EXCEPT
                     !.mutated = TRUE,
                     !.result = TouchAt(pure.result, key),
                     !.base = IF pure.refs[key] = "base" THEN TouchAt(pure.base, key)
                              ELSE pure.base,
                     !.override = IF pure.refs[key] = "override"
                                    THEN TouchAt(pure.override, key)
                                    ELSE pure.override]
  /\ UNCHANGED <<platformSource, userSource, requests, prefersDark, document, app, provider,
                 rendered, updateCalls>>

\* validateConfig(config) is called: it returns a ValidationResult or throws.
CallValidateConfig ==
  /\ pure.fn = "validateConfig"
  /\ ~pure.done
  /\ pure' = IF validateConfigThrows(pure.config)
               THEN [pure EXCEPT !.done = TRUE, !.threw = TRUE]
               ELSE [pure EXCEPT !.done = TRUE, !.result = validateConfig(pure.config)]
  /\ UNCHANGED <<platformSource, userSource, requests, prefersDark, document, app, provider,
                 rendered, updateCalls>>

\* loadConfig() is called and its promise settles.
CallLoadConfig ==
  /\ pure.fn = "loadConfig"
  /\ ~pure.done
  /\ pure' = [pure EXCEPT !.done = TRUE, !.promise = loadConfig(pure.response)]
  /\ UNCHANGED <<platformSource, userSource, requests, prefersDark, document, app, provider,
                 rendered, updateCalls>>

\* sanitizeConfig(config) is called and returns or throws.
CallSanitizeConfig ==
  /\ pure.fn = "sanitizeConfig"
  /\ ~pure.done
  /\ IF sanitizeConfigThrows(pure.config)
       THEN pure' = [pure EXCEPT !.done = TRUE, !.threw = TRUE]
       ELSE pure' = [pure EXCEPT !.done = TRUE, !.result = sanitizeConfig(pure.config)]
  /\ UNCHANGED <<platformSource, userSource, requests, prefersDark, document, app, provider,
                 rendered, updateCalls>>

\* applyThemeVariables(theme) is called on the document the earlier calls
\* left.
CallApplyThemeVariables ==
  /\ pure.fn = "applyThemeVariables"
  /\ pure.calls < MaxCalls
  /\ \E i \in DOMAIN Themes :
       /\ document' = applyThemeVariables(document, Themes[i])
       /\ pure' = [pure EXCEPT !.calls = @ + 1, !.argument = Themes[i], !.before = document]
  /\ UNCHANGED <<platformSource, userSource, requests, prefersDark, app, provider,
                 rendered, updateCalls>>

\* updateSEOMetadata(seo) is called on the document the earlier calls left.
CallUpdateSEOMetadata ==
  /\ pure.fn = "updateSEOMetadata"
  /\ pure.calls < MaxCalls
  /\ \E i \in DOMAIN Seos :
       /\ document' = updateSEOMetadata(document, Seos[i])
       /\ pure' = [pure EXCEPT !.calls = @ + 1, !.argument = Seos[i], !.before = document]
  /\ UNCHANGED <<platformSource, userSource, requests, prefersDark, app, provider,
                 rendered, updateCalls>>

\* isAllowed(key, maxAttempts, WindowMs) is called.  granted counts the calls
\* for the key that returned true since the call that created its record.
CallIsAllowed ==
  /\ pure.fn = "RateLimiter"
  /\ \E key \in Keys :
       LET call == isAllowed(pure.attempts, key, pure.maxAttempts, WindowMs, pure.now)
           opensWindow == ~pure.attempts[key].present \/ pure.now > pure.attempts[key].resetTime
       IN pure' = [pure EXCEPT
                     !.attempts = call.attempts,
                     !.granted[key] = IF ~call.result THEN @
                                      ELSE IF opensWindow THEN 1 ELSE @ + 1,
                     !.last = [op |-> "isAllowed", key |-> key, result |-> call.result,
                               before |-> pure.attempts, opensWindow |-> opensWindow]]
  /\ UNCHANGED <<platformSource, userSource, requests, prefersDark, document, app, provider,
                 rendered, updateCalls>>

\* reset(key) is called.
CallReset ==
  /\ pure.fn = "RateLimiter"
  /\ \E key \in Keys :
       pure' = [pure EXCEPT !.attempts = reset(pure.attempts, key),
                            !.granted[key] = 0,
                            !.last = [op |-> "reset", key |-> key, before |-> pure.attempts]]
  /\ UNCHANGED <<platformSource, userSource, requests, prefersDark, document, app, provider,
                 rendered, updateCalls>>

\* Date.now() advances.
ClockTick ==
  /\ pure.fn = "RateLimiter"
  /\ pure.now < MaxNow
  /\ pure' = [pure EXCEPT !.now = @ + 1, !.last = [op |-> "tick"]]
  /\ UNCHANGED <<platformSource, userSource, requests, prefersDark, document, app, provider,
                 rendered, updateCalls>>

\* validateUrl(url) is called.
CallValidateUrl ==
  /\ pure.fn = "validateUrl"
  /\ ~pure.done
  /\ pure' = [pure EXCEPT !.done = TRUE, !.result = validateUrl(pure.url)]
  /\ UNCHANGED <<platformSource, userSource, requests, prefersDark, document, app, provider,
                 rendered, updateCalls>>

\* isSafeExternalUrl(url) is called.
CallIsSafeExternalUrl ==
  /\ pure.fn = "isSafeExternalUrl"
  /\ ~pure.done
  /\ pure' = [pure EXCEPT !.done = TRUE, !.result = isSafeExternalUrl(pure.url)]
  /\ UNCHANGED <<platformSource, userSource, requests, prefersDark, document, app, provider,
                 rendered, updateCalls>>

NextPure ==
  \/ CallMergeConfig
  \/ MutateMerged
  \/ CallValidateConfig
  \/ CallLoadConfig
  \/ CallValidateUrl
  \/ CallIsSafeExternalUrl
  \/ CallSanitizeConfig
  \/ CallApplyThemeVariables
  \/ CallUpdateSEOMetadata
  \/ CallIsAllowed
  \/ CallReset
  \/ ClockTick

SpecPure == InitPure /\ [][NextPure]_vars

\* mergeConfig has returned and its result has not been written to since.
Merged == pure.fn = "mergeConfig" /\ pure.done /\ ~pure.mutated

\* C10: for a Configuration A that passes the validator, mergeConfig(A, {})
\* equals A in every field at every level.
C10_MergeEmptyIsIdentity ==
  (/\ Merged
   /\ pure.override = EmptyObj
   /\ PassesValidator(pure.base))
  => pure.result = pure.base

\* C10 happens: a valid Configuration other than the defaults was merged
\* with {} and came back equal.
C10_Witness ==
  /\ Merged
  /\ pure.override = EmptyObj
  /\ PassesValidator(pure.base)
  /\ Prop(Prop(pure.base, "profile"), "name") # Prop(Prop(DEFAULT_CONFIG, "profile"), "name")
  /\ pure.result = pure.base


(***************************************************************************)
(* Claims about mergeConfig                                                *)
(***************************************************************************)

\* An override that sets a single nested leaf: one section key, whose value
\* is a record of one field, whose value is neither a record nor undefined.
IsSingleLeaf(override) ==
  /\ Tag(override) = "object"
  /\ Cardinality(OwnKeys(override)) = 1
  /\ \A section \in OwnKeys(override) :
       LET part == Prop(override, section)
       IN /\ Tag(part) = "object"
          /\ Cardinality(OwnKeys(part)) = 1
          /\ \A field \in OwnKeys(part) : Tag(Prop(part, field)) \notin {"object", "undefined"}

\* The leaf is written and nothing else differs from base.
LeafWrittenOnly(base, override, result) ==
  \A section \in OwnKeys(override) : \A field \in OwnKeys(Prop(override, section)) :
    /\ Prop(Prop(result, section), field) = Prop(Prop(override, section), field)
    /\ OwnKeys(result) = OwnKeys(base)
    /\ \A other \in OwnKeys(base) \ {section} : Prop(result, other) = Prop(base, other)
    /\ OwnKeys(Prop(result, section)) = OwnKeys(Prop(base, section)) \cup {field}
    /\ \A sibling \in OwnKeys(Prop(base, section)) \ {field} :
         Prop(Prop(result, section), sibling) = Prop(Prop(base, section), sibling)

\* C11: for a Configuration A and an override that sets a single nested
\* leaf, the result of mergeConfig has that leaf equal to the override's value
\* and every other field, the siblings of the leaf included, equal to A's.
C11_LeafOverrideKeepsFrame ==
  (/\ Merged
   /\ IsTotal(pure.base)
   /\ IsSingleLeaf(pure.override))
  => LeafWrittenOnly(pure.base, pure.override, pure.result)

\* C11 happens: profile.name alone was overridden on a total Configuration.
C11_Witness ==
  /\ Merged
  /\ IsTotal(pure.base)
  /\ pure.override = LeafOverrides[1]
  /\ Prop(Prop(pure.result, "profile"), "name") = Str(I_platformName)
  /\ Prop(Prop(pure.result, "profile"), "bio") = Prop(Prop(pure.base, "profile"), "bio")


\* At every level the merge descends to: a key whose override value is
\* undefined keeps the base's value (and stays absent when base has none); a
\* key whose override value is '', false or null has that value.
RECURSIVE RespectsOverride(_, _, _)
RespectsOverride(base, override, result) ==
  \A key \in OwnKeys(override) :
    LET overrideValue == Prop(override, key)
        baseValue == Prop(base, key)
    IN /\ Tag(overrideValue) = "undefined" =>
            /\ Prop(result, key) = baseValue
            /\ key \in OwnKeys(result) <=> key \in OwnKeys(base)
       /\ (\/ overrideValue = Str(<<>>)
           \/ overrideValue = Bool(FALSE)
           \/ Tag(overrideValue) = "null") => Prop(result, key) = overrideValue
       /\ (isObject(overrideValue) /\ isObject(baseValue)) =>
            RespectsOverride(baseValue, overrideValue, Prop(result, key))

\* C12: in mergeConfig an override key whose value is undefined leaves the
\* base's value untouched, and an explicit empty string, false or null
\* overwrites it.
C12_UndefinedSkippedFalsyWritten ==
  (Merged /\ Tag(pure.base) = "object")
  => RespectsOverride(pure.base, pure.override, pure.result)

\* C12 happens: one override left profile.name and advanced alone and wrote
\* '' to profile.bio, null to profile.location and false to theme.showBorder.
C12_Witness ==
  /\ Merged
  /\ pure.base = ValidConfiguration
  /\ pure.override = MixedOverride
  /\ Prop(Prop(pure.result, "profile"), "name") = Str(I_nameA)
  /\ Prop(pure.result, "advanced") = Prop(DEFAULT_CONFIG, "advanced")
  /\ Prop(Prop(pure.result, "profile"), "bio") = Str(<<>>)
  /\ Prop(Prop(pure.result, "profile"), "location") = Null
  /\ Prop(Prop(pure.result, "theme"), "showBorder") = Bool(FALSE)
  /\ Prop(Prop(pure.base, "theme"), "showBorder") = Bool(TRUE)


\* C13: mergeConfig never merges arrays element by element: when the
\* override provides a links array, of any length, the links of the result
\* are the override's sequence in its order, and no link of base survives.
C13_LinksArrayReplaced ==
  (/\ Merged
   /\ Tag(pure.base) = "object"
   /\ Tag(Prop(pure.override, "links")) = "array")
  => Prop(pure.result, "links") = Prop(pure.override, "links")

\* C13 happens: an empty links array replaced the two links of the base.
C13_Witness ==
  /\ Merged
  /\ Len(Val(Prop(pure.base, "links"))) = 2
  /\ Prop(pure.override, "links") = Arr(<<>>)
  /\ Prop(pure.result, "links") = Arr(<<>>)


\* C14: mergeConfig is free of aliases: no nested record or array of the
\* result is the same object as one of base or of override, so an in-place
\* write to the merged result changes neither input.
C14_ResultSharesNothing ==
  (pure.fn = "mergeConfig" /\ pure.done) =>
    /\ \A key \in DOMAIN pure.refs : pure.refs[key] \notin {"base", "override"}
    /\ pure.base = pure.before.base
    /\ pure.override = pure.before.override


(***************************************************************************)
(* Claims about the schema validator                                       *)
(***************************************************************************)
\* validateConfig was called and returned a ValidationResult.
Validated == pure.fn = "validateConfig" /\ pure.done /\ ~pure.threw

\* The field of every error-level rule of validateConfig that the candidate
\* violates, rule by rule.
ViolatedErrorFields(config) ==
  LET profile == Prop(config, "profile")
      links == Prop(config, "links")
      theme == Prop(config, "theme")
      seo == Prop(config, "seo")
      analytics == Prop(config, "analytics")
      Missing(x) == ~Truthy(x) \/ IsZero(Prop(x, "length"))
      Over(x, n) == Truthy(x) /\ LengthOver(x, n)
      Rule(violated, field) == IF violated THEN {field} ELSE {}
  IN Rule(Missing(Prop(profile, "name")) \/ Over(Prop(profile, "name"), MaxNameLength),
          <<"profile.name">>)
     \cup Rule(Over(Prop(profile, "bio"), MaxBioLength), <<"profile.bio">>)
     \cup Rule(Truthy(Prop(profile, "avatar")) /\ ~validateImageUrl(Prop(profile, "avatar")),
               <<"profile.avatar">>)
     \cup Rule(Over(Prop(profile, "location"), MaxLocationLength), <<"profile.location">>)
     \cup Rule(LengthOver(links, MaxLinks), <<"links">>)
     \cup UNION {LET link == Val(links)[i]
                     index == IdxKey[i]
                 IN Rule(Missing(Prop(link, "title"))
                           \/ Over(Prop(link, "title"), MaxTitleLength),
                         <<"links[", index, "].title">>)
                    \cup Rule(\/ ~Truthy(Prop(link, "url"))
                              \/ ~validateUrl(Prop(link, "url"))
                              \/ Over(Prop(link, "url"), MaxUrlLength),
                              <<"links[", index, "].url">>)
                    \cup Rule(Over(Prop(link, "description"), MaxDescriptionLength),
                              <<"links[", index, "].description">>)
                 : i \in DOMAIN Val(links)}
     \cup UNION {Rule(/\ Truthy(Prop(Prop(config, "socialMedia"), platform))
                      /\ ~validateSocialMediaUsername(
                            platform, Prop(Prop(config, "socialMedia"), platform)),
                      <<"socialMedia.", platform>>)
                 : platform \in OwnKeys(Prop(config, "socialMedia"))}
     \cup Rule(~validateHexColor(Prop(theme, "primaryColor")), <<"theme.primaryColor">>)
     \cup Rule(Truthy(Prop(theme, "backgroundImage"))
                 /\ ~validateImageUrl(Prop(theme, "backgroundImage")),
               <<"theme.backgroundImage">>)
     \cup Rule(Truthy(Prop(seo, "favicon")) /\ ~validateImageUrl(Prop(seo, "favicon")),
               <<"seo.favicon">>)
     \cup Rule(Truthy(Prop(analytics, "googleAnalyticsId"))
                 /\ ~validateGoogleAnalyticsId(Prop(analytics, "googleAnalyticsId")),
               <<"analytics.googleAnalyticsId">>)
     \cup Rule(Truthy(Prop(analytics, "facebookPixelId"))
                 /\ ~validateFacebookPixelId(Prop(analytics, "facebookPixelId")),
               <<"analytics.facebookPixelId">>)

\* The fields the errors of a ValidationResult name.
ErrorFields(result) == {result.errors[i].field : i \in DOMAIN result.errors}

\* C15: the validator makes no early exit: the errors it returns name every
\* violated error-level rule, isValid is true exactly when there is no
\* error, and warnings do not change isValid.
C15_AllErrorsReported ==
  Validated =>
    /\ ErrorFields(pure.result) = ViolatedErrorFields(pure.config)
    /\ pure.result.isValid <=> pure.result.errors = <<>>

\* C15 happens: a candidate with two violations got both errors.
C15_Witness ==
  /\ Validated
  /\ ErrorFields(pure.result) = {<<"profile.name">>, <<"theme.primaryColor">>}
  /\ Len(pure.result.errors) = 2
  /\ ~pure.result.isValid


\* type ColorScheme = 'light' | 'dark' | 'auto'
ColorSchemes == {Str(S_light), Str(S_dark), Str(S_auto)}

\* C16: the validator rejects a theme.colorScheme outside light, dark and
\* auto, and the Configuration loadConfig returns always has a
\* theme.colorScheme among the three.
C16_ColorSchemeEnumerated ==
  /\ (Validated /\ Prop(Prop(pure.config, "theme"), "colorScheme") \notin ColorSchemes)
       => ~pure.result.isValid
  /\ (pure.fn = "loadConfig" /\ pure.done)
       => /\ pure.promise.state = "fulfilled"
          /\ Prop(Prop(pure.promise.value, "theme"), "colorScheme") \in ColorSchemes


\* The hosts the specification calls loopback, private-network or
\* link-local: localhost, 127.0.0.0/8, 10.0.0.0/8, 172.16.0.0/12,
\* 192.168.0.0/16, 169.254.0.0/16, and the IPv6 loopback and link-local
\* addresses (a URL's hostname keeps the brackets of an IPv6 literal).
PrivateHost(hostname) ==
  \/ hostname = <<"l", "o", "c", "a", "l", "h", "o", "s", "t">>
  \/ hostname = <<"[", ":", ":", "1", "]">>
  \/ StartsWith(hostname, <<"[", "f", "e", "8", "0", ":">>)
  \/ /\ Len(Labels(hostname)) = 4
     /\ \A i \in 1..4 : IsNumeric(Labels(hostname)[i])
     /\ LET first == StringToNat(Labels(hostname)[1])
            second == StringToNat(Labels(hostname)[2])
        IN \/ first \in {127, 10}
           \/ first = 192 /\ second = 168
           \/ first = 172 /\ second \in 16..31
           \/ first = 169 /\ second = 254

\* A URL value that parses and has a scheme outside the allowed ones or a
\* private host.
UnsafeUrl(url) ==
  /\ Tag(url) = "string"
  /\ URLParse(Val(url)).ok
  /\ \/ URLParse(Val(url)).protocol \notin allowedProtocols
     \/ PrivateHost(URLParse(Val(url)).hostname)

\* C17: a candidate with a link whose URL has a disallowed scheme or a
\* private-network or loopback host gets an error on links[i].url and
\* isValid false.
C17_UnsafeLinkIsError ==
  (Validated /\ Tag(Prop(pure.config, "links")) = "array") =>
    \A i \in DOMAIN Val(Prop(pure.config, "links")) :
      UnsafeUrl(Prop(Val(Prop(pure.config, "links"))[i], "url")) =>
        /\ <<"links[", IdxKey[i], "].url">> \in ErrorFields(pure.result)
        /\ ~pure.result.isValid


\* The string is absent or empty.
EmptyOrAbsent(x) == ~Truthy(x) \/ x = Str(<<>>)

\* C18: a candidate whose profile.name is empty, whose profile.bio is empty
\* or absent, or which lacks the theme, layout or seo section, gets an error
\* entry for it and isValid false, and the validator returns rather than
\* throws.
C18_RequiredPresenceIsError ==
  (pure.fn = "validateConfig" /\ pure.done) =>
    /\ ~pure.threw
    /\ EmptyOrAbsent(Prop(Prop(pure.config, "profile"), "name")) =>
         /\ <<"profile.name">> \in ErrorFields(pure.result)
         /\ ~pure.result.isValid
    /\ EmptyOrAbsent(Prop(Prop(pure.config, "profile"), "bio")) =>
         /\ <<"profile.bio">> \in ErrorFields(pure.result)
         /\ ~pure.result.isValid
    /\ \A section \in {"theme", "layout", "seo"} :
         Prop(pure.config, section) = Undefined =>
           /\ pure.result.errors # <<>>
           /\ ~pure.result.isValid


(***************************************************************************)
(* Claims about the URL predicates                                         *)
(***************************************************************************)
\* C19: isSafeExternalUrl returns false for every URL that fails validateUrl
\* and for every URL whose host is loopback, private-network or link-local,
\* and returns true for the public https://example.com.
C19_PrivateHostsAreUnsafe ==
  (pure.fn = "isSafeExternalUrl" /\ pure.done) =>
    /\ ~validateUrl(pure.url) => ~pure.result
    /\ (URLParse(Val(pure.url)).ok /\ PrivateHost(URLParse(Val(pure.url)).hostname)) =>
         ~pure.result
    /\ pure.url = Str(U_public) => pure.result


\* C20: validateUrl always returns a boolean; it returns true only if the
\* string parses as a URL whose scheme is http, https, mailto or tel and the
\* string matches none of the blocked patterns (javascript:, data:,
\* vbscript:, file:, ftp:); it returns false for a string that does not
\* parse, such as the schemeless example.com.
C20_ValidateUrlIsTotalPredicate ==
  (pure.fn = "validateUrl" /\ pure.done) =>
    /\ pure.result \in BOOLEAN
    /\ pure.result =>
         /\ URLParse(Val(pure.url)).ok
         /\ URLParse(Val(pure.url)).protocol \in {S_http, S_https, S_mailto, S_tel}
         /\ \A blocked \in {S_javascript, S_data, S_vbscript, S_file, S_ftp} :
              ~ContainsCI(Val(pure.url), blocked)
    /\ pure.url = Str(U_schemeless) => ~pure.result

\* C20 happens: validateUrl was called with example.com and returned false.
C20_Witness ==
  /\ pure.fn = "validateUrl"
  /\ pure.done
  /\ pure.url = Str(U_schemeless)
  /\ ~URLParse(U_schemeless).ok
  /\ pure.result = FALSE


(***************************************************************************)
(* Claims about sanitization                                               *)
(***************************************************************************)
\* The configuration loadConfig merged from the response of the call.
MergedRaw == mergeConfig(DEFAULT_CONFIG, loadUserConfig(pure.response))

\* loadConfig returned on its valid or on its degraded path.
LoadedOnPath(valid) ==
  /\ pure.fn = "loadConfig"
  /\ pure.done
  /\ ~loadConfigThrows(pure.response)
  /\ validateConfig(MergedRaw).isValid = valid

\* The field holds its raw value sanitized once; an optional field without a
\* raw value is empty or absent.
SanitizedOnce(final, raw) ==
  IF Truthy(raw) THEN final = sanitizeText(raw) ELSE ~Truthy(final)

FreeTextSanitizedOnce(final, raw) ==
  /\ \A field \in {"name", "bio", "location"} :
       SanitizedOnce(Prop(Prop(final, "profile"), field), Prop(Prop(raw, "profile"), field))
  /\ \A field \in {"title", "description", "keywords"} :
       SanitizedOnce(Prop(Prop(final, "seo"), field), Prop(Prop(raw, "seo"), field))
  /\ Len(Val(Prop(final, "links"))) = Len(Val(Prop(raw, "links")))
  /\ \A i \in DOMAIN Val(Prop(raw, "links")) :
       \A field \in {"title", "description"} :
         SanitizedOnce(Prop(Val(Prop(final, "links"))[i], field),
                       Prop(Val(Prop(raw, "links"))[i], field))

Sanitized == pure.fn = "sanitizeConfig" /\ pure.done /\ ~pure.threw

\* The keys of a link that are free text.
LinkFreeText == {"title", "description"}

\* C22: sanitizeConfig leaves every URL, and the socialMedia, theme, layout,
\* analytics and advanced sections, unchanged; the links of its result are
\* as many as the links of its argument, in the same order, each with
\* everything but its title and description unchanged.
C22_SanitizeChangesFreeTextOnly ==
  Sanitized =>
    /\ \A section \in {"socialMedia", "theme", "layout", "analytics", "advanced"} :
         Prop(pure.result, section) = Prop(pure.config, section)
    /\ Prop(Prop(pure.result, "profile"), "avatar") = Prop(Prop(pure.config, "profile"), "avatar")
    /\ Prop(Prop(pure.result, "seo"), "favicon") = Prop(Prop(pure.config, "seo"), "favicon")
    /\ Len(Val(Prop(pure.result, "links"))) = Len(Val(Prop(pure.config, "links")))
    /\ \A i \in DOMAIN Val(Prop(pure.config, "links")) :
         /\ DOMAIN Val(Val(Prop(pure.config, "links"))[i]) \ LinkFreeText
              \subseteq DOMAIN Val(Val(Prop(pure.result, "links"))[i])
         /\ \A key \in DOMAIN Val(Val(Prop(pure.config, "links"))[i]) \ LinkFreeText :
              Prop(Val(Prop(pure.result, "links"))[i], key)
                = Prop(Val(Prop(pure.config, "links"))[i], key)

\* C22 happens: a Configuration with markup in its free-text fields and two
\* links was sanitized, and its text did change.
C22_Witness ==
  /\ Sanitized
  /\ Len(Val(Prop(pure.config, "links"))) = 2
  /\ Prop(Prop(pure.config, "profile"), "name") = Str(I_markup)
  /\ Prop(Prop(pure.result, "profile"), "name") # Str(I_markup)
  /\ Prop(Val(Prop(pure.result, "links"))[1], "url") = Str(I_goodUrl)


\* The errors of a result that name the given field.
ErrorsOn(result, field) == {i \in DOMAIN result.errors : result.errors[i].field = field}

\* C23: a candidate with 20 links gets no error on the number of its links;
\* a candidate with 21 links gets exactly one error whose field is links,
\* and isValid false.
C23_LinkCountBoundary ==
  (Validated /\ Tag(Prop(pure.config, "links")) = "array") =>
    /\ Len(Val(Prop(pure.config, "links"))) <= 20 =>
         ErrorsOn(pure.result, <<"links">>) = {}
    /\ Len(Val(Prop(pure.config, "links"))) >= 21 =>
         /\ Cardinality(ErrorsOn(pure.result, <<"links">>)) = 1
         /\ ~pure.result.isValid

\* C23 happens: a candidate with 21 valid links got the one error.
C23_Witness ==
  /\ Validated
  /\ pure.config = ManyLinks(21)
  /\ Len(pure.result.errors) = 1
  /\ pure.result.errors[1].field = <<"links">>
  /\ ~pure.result.isValid


(***************************************************************************)
(* Claims about the page                                                   *)
(***************************************************************************)
\* C24: the link buttons App renders are exactly the enabled links of the
\* loaded Configuration, in the order of the Configuration; a disabled link
\* is not rendered.
C24_OnlyEnabledLinksRendered ==
  (AppShowsTree /\ Tag(Prop(app.config, "links")) = "array") =>
    AppLinkButtons = enabledLinks(Val(Prop(app.config, "links")))


(***************************************************************************)
(* Claims about the theme applicator                                       *)
(***************************************************************************)
\* The theme asks for a background image.
WantsBackgroundImage(theme) ==
  /\ Prop(theme, "backgroundStyle") = Str(S_image)
  /\ Tag(Prop(theme, "backgroundImage")) = "string"
  /\ Val(Prop(theme, "backgroundImage")) # <<>>

\* C25: after every call of applyThemeVariables, --background-image is set
\* if and only if the theme just applied has backgroundStyle image and a
\* backgroundImage that is not empty; a value of an earlier theme does not
\* stay.
C25_BackgroundImageFollowsTheme ==
  (pure.fn = "applyThemeVariables" /\ pure.calls > 0) =>
    /\ document.backgroundImage # <<>> <=> WantsBackgroundImage(pure.argument)
    /\ WantsBackgroundImage(pure.argument) =>
         document.backgroundImage
           = <<"u", "r", "l", "(">> \o Val(Prop(pure.argument, "backgroundImage")) \o <<")">>

\* C25 happens: a theme without a background image was applied after one
\* with a background image, and the variable was cleared.
C25_Witness ==
  /\ pure.fn = "applyThemeVariables"
  /\ pure.calls > 1
  /\ pure.before.backgroundImage # <<>>
  /\ ~WantsBackgroundImage(pure.argument)
  /\ document.backgroundImage = <<>>


\* C26: after every call of updateSEOMetadata, the title, the description,
\* the keywords and the favicon of the document are those of the seo section
\* just passed, an empty favicon after one that was not empty included.
C26_SeoMetadataReflectsSection ==
  (pure.fn = "updateSEOMetadata" /\ pure.calls > 0) =>
    /\ document.title = Val(Prop(pure.argument, "title"))
    /\ document.metaDescription = Val(Prop(pure.argument, "description"))
    /\ document.metaKeywords = Val(Prop(pure.argument, "keywords"))
    /\ document.favicon = Val(Prop(pure.argument, "favicon"))


(***************************************************************************)
(* Claims about dark mode                                                  *)
(***************************************************************************)
\* The colour scheme of the resident Configuration.
ResidentScheme == ColorSchemeOf(provider.config)

\* C27: while the resident colorScheme is auto, a change of the system
\* preference leaves the dark flag of the document equal to the new
\* preference; while it is light or dark, the flag is that scheme and a
\* change of the system preference does not change it.
C27_DarkFollowsSystemUnderAuto ==
  [][(prefersDark' # prefersDark /\ Truthy(provider.config)) =>
       /\ ResidentScheme = Str(S_auto) => document'.dark = prefersDark'
       /\ ResidentScheme \in {Str(S_light), Str(S_dark)} =>
            /\ document'.dark = document.dark
            /\ document'.dark = (ResidentScheme = Str(S_dark))]_vars


\* React has rendered ThemeProvider since its state last changed.
RenderIsCurrent == rendered = RenderOf(provider, rendered, prefersDark)

\* C28: once the children of ThemeProvider are rendered from its current
\* state, the isDarkMode they are given equals the dark flag of the document,
\* after a change of the system preference under auto as well.
C28_IsDarkModeIsDisplayedMode ==
  (rendered.children /\ RenderIsCurrent) => rendered.isDarkMode = document.dark


(***************************************************************************)
(* Claims about updates                                                    *)
(***************************************************************************)
\* The Configuration holds what the update writes.
HoldsUpdate(config, updates) == Truthy(config) /\ mergeDeep(config, updates) = config

\* C29: the updates touch fields disjoint from each other and from the one
\* toggleDarkMode writes, so a call of updateConfig or toggleDarkMode keeps
\* in the resident Configuration what an earlier update wrote, also when
\* both are called within one render pass.
C29_NoLostUpdate ==
  [][updateCalls' = updateCalls + 1 =>
       \A i \in DOMAIN Updates :
         HoldsUpdate(provider.config, Updates[i]) => HoldsUpdate(provider.config', Updates[i])]_vars


(***************************************************************************)
(* Claims about the RateLimiter                                            *)
(***************************************************************************)
\* C30: within the window of a key's record at most maxAttempts calls for
\* the key return true; a denied call leaves the record unchanged; a call
\* or a reset leaves the records of the other keys unchanged; the first call
\* after the window has expired or after reset(key) returns true and starts
\* a window with count 1.
C30_RateLimiterBound ==
  pure.fn = "RateLimiter" =>
    /\ \A key \in Keys : pure.attempts[key].present => pure.granted[key] <= pure.maxAttempts
    /\ pure.last.op \in {"isAllowed", "reset"} =>
         \A key \in Keys \ {pure.last.key} : pure.attempts[key] = pure.last.before[key]
    /\ (pure.last.op = "isAllowed" /\ ~pure.last.result) => pure.attempts = pure.last.before
    /\ (pure.last.op = "isAllowed" /\ pure.last.opensWindow) =>
         /\ pure.last.result
         /\ pure.attempts[pure.last.key]
              = [present |-> TRUE, count |-> 1, resetTime |-> pure.now + WindowMs]

====
